---------------------------- MODULE Spec2Model ----------------------------
(***************************************************************************)
(* A model of the Ajax Systems integration (custom_components/ajax_systems):*)
(* the SIA DC-09 receiver (sia/receiver.py), the data coordinator           *)
(* (coordinator.py), the Jeedom MQTT bridge (jeedom_mqtt_handler.py) and    *)
(* the alarm panel entity (alarm_control_panel.py).                         *)
(*                                                                         *)
(* Python values are represented as follows.                               *)
(*   - str            a TLA+ string, or a tuple of one-character strings    *)
(*                    where the code looks inside the string               *)
(*   - Optional[T]    None is <<>>, a present value x is <<x>>              *)
(*   - dataclass      a record with the dataclass' field names             *)
(*   - dict           a function whose DOMAIN is the set of keys           *)
(***************************************************************************)
EXTENDS Integers, Sequences, FiniteSets, TLC

VARIABLES
    fnCall,     \* the pure function under evaluation and its argument
    fnRes,      \* <<>> until the function has returned, then <<result>>
    cfg,        \* ConfigEntry.data: use_sia, use_jeedom_mqtt, hub_id, sia_account
    setup,      \* async_setup: its position (pc), its locals sia_ok and
                \* jeedom_mqtt_ok, and what it returned (result, None while it runs)
    data,       \* AjaxDataCoordinator.data: the AjaxCoordinator aggregate
    running,    \* SiaReceiver._running
    listener_raises, \* a listener of the coordinator raises when notified
    mqtt,       \* JeedomMqttHandler: subscribed (its _handle_message is
                \* subscribed to the broker) and _devices
    op,         \* the last call made on the coordinator and its outcome
    nin,        \* how many events (sia) and bridge messages (mqtt) came in
    transport,  \* per SiaProtocol: "new", "open" (connection_made), "lost"
    buffer,     \* per SiaProtocol: _buffer
    carried,    \* per SiaProtocol: a data_received call found bytes in _buffer
    wire,       \* per connection: the bytes its peer sends
    pos,        \* per connection: how many bytes of wire were received
    nmsg,       \* per connection: non-empty messages handled so far
    log,        \* per connection: transport.write / event_callback calls
    sia_receiver,        \* coordinator._sia_receiver: None or the SiaReceiver
    jeedom_mqtt_handler, \* coordinator._jeedom_mqtt_handler: None or the handler
    mqtt_publisher,      \* coordinator._mqtt_publisher: None or the publisher
    tracked_entity_ids,  \* coordinator._tracked_entity_ids
    watchers,   \* per entity: the state-change watchers installed in the host
    life,       \* the entry's life: its configuration and environment, where
                \* async_setup_mqtt_publisher stands, the registrations made,
                \* the last command and the outcome of async_shutdown
    binary_sensor, \* the binary_sensor platform of the entry: whether its
                \* async_setup_entry ran (loaded), added_devices, the entities
    receiver    \* a SiaReceiver under start() and stop() calls: _server,
                \* _running, the port, and where each call stands

fnVars == <<fnCall, fnRes>>
coordVars == <<cfg, setup, data, running, listener_raises, mqtt, op, nin>>
siaVars == <<transport, buffer, carried, wire, pos, nmsg, log>>
lifeVars == <<sia_receiver, jeedom_mqtt_handler, mqtt_publisher,
              tracked_entity_ids, watchers, life>>
hostVars == <<binary_sensor, receiver>>
vars == <<fnCall, fnRes, cfg, setup, data, running, listener_raises, mqtt, op,
          nin, transport, buffer, carried, wire, pos, nmsg, log,
          sia_receiver, jeedom_mqtt_handler, mqtt_publisher,
          tracked_entity_ids, watchers, life, binary_sensor, receiver>>

None == <<>>
Some(x) == <<x>>

(***************************************************************************)
(* Bounds of the model.                                                    *)
(***************************************************************************)
MaxZone == 2
\* messages sent over all connections
MaxMsgs == 2
\* bytes handed to one data_received call
MaxChunk == 4
\* receiver events and bridge messages handed to the coordinator, in all
MaxInputs == 2
\* Calls of register_entity_for_mqtt in a run.
MaxRegistrations == 3
\* Calls of SiaReceiver.start() and stop() in a run.
MaxCalls == 3

(***************************************************************************)
(* const.py                                                                *)
(***************************************************************************)
\* class AjaxAlarmState(StrEnum)
DISARMED == "disarmed"
ARMED_AWAY == "armed_away"
ARMED_HOME == "armed_home"
ARMED_NIGHT == "armed_night"
ARMING == "arming"
PENDING == "pending"
TRIGGERED == "triggered"

AjaxAlarmState ==
    {DISARMED, ARMED_AWAY, ARMED_HOME, ARMED_NIGHT, ARMING, PENDING, TRIGGERED}

\* The keys of SIA_EVENT_CODES.
SIA_EVENT_CODES ==
    {"BA", "BR", "FA", "FR", "PA", "PR", "WA", "WR", "TA", "TR",
     "CL", "OP", "NL", "NR",
     "AT", "AR", "YT", "YR", "YP", "YQ",
     "RP", "RX",
     "ZO", "ZC"}

(***************************************************************************)
(* Python's str operations, on the characters that occur in the inputs.    *)
(***************************************************************************)
UPPER == "ABCDEFGHIJKLMNOPQRSTUVWXYZ"
LOWER == "abcdefghijklmnopqrstuvwxyz"
DIGITS == "0123456789"

Char(s, i) == SubSeq(s, i, i)
InStr(ch, s) == \E i \in 1..Len(s) : Char(s, i) = ch
IndexIn(ch, s) == CHOOSE i \in 1..Len(s) : Char(s, i) = ch

\* s.lower()
RECURSIVE lower(_)
lower(s) ==
    IF s = "" THEN ""
    ELSE (IF InStr(Char(s, 1), UPPER) THEN Char(LOWER, IndexIn(Char(s, 1), UPPER))
          ELSE Char(s, 1))
         \o lower(SubSeq(s, 2, Len(s)))

\* s.upper() leaving s as it is
upper_unchanged(s) == s

\* s.upper()
RECURSIVE upper(_)
upper(s) ==
    IF s = "" THEN ""
    ELSE (IF InStr(Char(s, 1), LOWER) THEN Char(UPPER, IndexIn(Char(s, 1), LOWER))
          ELSE Char(s, 1))
         \o upper(SubSeq(s, 2, Len(s)))

\* dict[key] = value
SetItem(dict, key, value) ==
    [k \in DOMAIN dict \cup {key} |-> IF k = key THEN value ELSE dict[k]]

\* pattern in s
Contains(s, pattern) ==
    \E i \in 1..(Len(s) - Len(pattern) + 1) :
        SubSeq(s, i, i + Len(pattern) - 1) = pattern

\* s is a non-empty string of decimal digits
IsDigits(s) == s # "" /\ \A i \in 1..Len(s) : InStr(Char(s, i), DIGITS)

\* int(s) for a string of decimal digits
RECURSIVE int(_)
int(s) ==
    IF Len(s) = 1 THEN IndexIn(s, DIGITS) - 1
    ELSE 10 * int(SubSeq(s, 1, Len(s) - 1)) + (IndexIn(Char(s, Len(s)), DIGITS) - 1)

\* int(float(s)) for a str: the integer, or the exception.  float accepts
\* decimal digits with at most one point, and the words inf, infinity and
\* nan in any case; int raises OverflowError for an infinity and ValueError
\* for nan.
int_of_float(s) ==
    LET points == {i \in 1..Len(s) : Char(s, i) = "."} IN
    IF IsDigits(s) THEN [outcome |-> "value", value |-> int(s)]
    ELSE IF \E i \in points :
               /\ IsDigits(SubSeq(s, 1, i - 1))
               /\ IsDigits(SubSeq(s, i + 1, Len(s)))
    THEN [outcome |-> "value",
          value |-> int(SubSeq(s, 1, (CHOOSE i \in points : TRUE) - 1))]
    ELSE IF lower(s) \in {"inf", "infinity"}
    THEN [outcome |-> "OverflowError", value |-> 0]
    ELSE [outcome |-> "ValueError", value |-> 0]

(***************************************************************************)
(* Inputs: every two-letter upper-case code ([A-Z]{2} of the receiver's     *)
(* patterns), zones None and 0..MaxZone.                                   *)
(***************************************************************************)
Letters ==
    {"A", "B", "C", "D", "E", "F", "G", "H", "I", "J", "K", "L", "M",
     "N", "O", "P", "Q", "R", "S", "T", "U", "V", "W", "X", "Y", "Z"}

TwoLetterCodes == {a \o b : a, b \in Letters}

Zones == {None} \cup {Some(z) : z \in 0..MaxZone}

\* models.py: SiaEvent (raw_data carries no behaviour); timestamp is the
\* clock's reading when the event is made, 0 until it is stamped
SiaEvent(account, code, zone) ==
    [account |-> account, event_code |-> code, zone |-> zone, timestamp |-> 0]

(***************************************************************************)
(* sia/receiver.py: the conversion functions                               *)
(***************************************************************************)
sia_event_to_alarm_state_nr_arms(event) ==
    LET code == event.event_code IN
    IF code = "CL" THEN Some(ARMED_AWAY)
    ELSE IF code = "OP" THEN Some(DISARMED)
    ELSE IF code = "NL" THEN Some(ARMED_HOME)
    ELSE IF code = "NR" THEN Some(ARMED_HOME)
    ELSE IF code \in {"BA", "FA", "PA", "WA", "TA"} THEN Some(TRIGGERED)
    ELSE None

\* sia_event_to_alarm_state with the restores disarming
sia_event_to_alarm_state_restore_disarms(event) ==
    LET code == event.event_code IN
    IF code = "CL" THEN Some(ARMED_AWAY)
    ELSE IF code = "OP" THEN Some(DISARMED)
    ELSE IF code = "NL" THEN Some(ARMED_HOME)
    ELSE IF code = "NR" THEN Some(DISARMED)
    ELSE IF code \in {"BA", "FA", "PA", "WA", "TA"} THEN Some(TRIGGERED)
    ELSE IF code \in {"BR", "FR", "PR", "WR", "TR"} THEN Some(DISARMED)
    ELSE None

sia_event_to_alarm_state(event) ==
    LET code == event.event_code IN
    IF code = "CL" THEN Some(ARMED_AWAY)
    ELSE IF code = "OP" THEN Some(DISARMED)
    ELSE IF code = "NL" THEN Some(ARMED_HOME)
    ELSE IF code = "NR" THEN Some(DISARMED)
    ELSE IF code \in {"BA", "FA", "PA", "WA", "TA"} THEN Some(TRIGGERED)
    ELSE IF code \in {"BR", "FR", "PR", "WR", "TR"} THEN None
    ELSE None

\* sia_event_to_sensor_state with the water restore reporting a leak
sia_event_to_sensor_state_wr_leaks(event) ==
    LET code == event.event_code
        zone == event.zone
    IN  IF code = "ZO" THEN Some([zone |-> zone, type |-> "door", is_open |-> TRUE])
        ELSE IF code = "ZC" THEN Some([zone |-> zone, type |-> "door", is_open |-> FALSE])
        ELSE IF code = "BA" THEN Some([zone |-> zone, type |-> "motion", motion_detected |-> TRUE])
        ELSE IF code = "BR" THEN Some([zone |-> zone, type |-> "motion", motion_detected |-> FALSE])
        ELSE IF code = "FA" THEN Some([zone |-> zone, type |-> "fire", smoke_detected |-> TRUE])
        ELSE IF code = "FR" THEN Some([zone |-> zone, type |-> "fire", smoke_detected |-> FALSE])
        ELSE IF code = "WA" THEN Some([zone |-> zone, type |-> "leak", leak_detected |-> TRUE])
        ELSE IF code = "WR" THEN Some([zone |-> zone, type |-> "leak", leak_detected |-> TRUE])
        ELSE IF code = "TA" THEN Some([zone |-> zone, type |-> "tamper", tamper |-> TRUE])
        ELSE IF code = "TR" THEN Some([zone |-> zone, type |-> "tamper", tamper |-> FALSE])
        ELSE None

\* The dict sia_event_to_sensor_state returns, or None.
sia_event_to_sensor_state(event) ==
    LET code == event.event_code
        zone == event.zone
    IN  IF code = "ZO" THEN Some([zone |-> zone, type |-> "door", is_open |-> TRUE])
        ELSE IF code = "ZC" THEN Some([zone |-> zone, type |-> "door", is_open |-> FALSE])
        ELSE IF code = "BA" THEN Some([zone |-> zone, type |-> "motion", motion_detected |-> TRUE])
        ELSE IF code = "BR" THEN Some([zone |-> zone, type |-> "motion", motion_detected |-> FALSE])
        ELSE IF code = "FA" THEN Some([zone |-> zone, type |-> "fire", smoke_detected |-> TRUE])
        ELSE IF code = "FR" THEN Some([zone |-> zone, type |-> "fire", smoke_detected |-> FALSE])
        ELSE IF code = "WA" THEN Some([zone |-> zone, type |-> "leak", leak_detected |-> TRUE])
        ELSE IF code = "WR" THEN Some([zone |-> zone, type |-> "leak", leak_detected |-> FALSE])
        ELSE IF code = "TA" THEN Some([zone |-> zone, type |-> "tamper", tamper |-> TRUE])
        ELSE IF code = "TR" THEN Some([zone |-> zone, type |-> "tamper", tamper |-> FALSE])
        ELSE None

(***************************************************************************)
(* models.py: the device classes.  A device is a record that carries its    *)
(* class in cls; an attribute its class does not declare is None, a         *)
(* declared attribute b is Some(b).                                        *)
(***************************************************************************)
\* hasattr(device, attr) for the type-specific attributes
HasAttr(device, attr) ==
    CASE attr = "is_open" -> device.cls = "AjaxDoorSensor"
      [] attr = "motion_detected" -> device.cls = "AjaxMotionSensor"
      [] attr = "leak_detected" -> device.cls = "AjaxLeakSensor"
      [] attr = "smoke_detected" -> device.cls = "AjaxFireSensor"
      [] OTHER -> FALSE

\* AjaxDevice(device_id, device_type, name, hub_id) with the defaults of the
\* dataclass: online = True, battery_level = None, tamper = False.
AjaxDevice(device_id, device_type, hub_id) ==
    [cls |-> "AjaxDevice", device_id |-> device_id, device_type |-> device_type,
     hub_id |-> hub_id, online |-> Some(TRUE), battery_level |-> None,
     tamper |-> FALSE, is_open |-> None, motion_detected |-> None,
     leak_detected |-> None, smoke_detected |-> None]

AjaxDoorSensor(device_id, device_type, hub_id, is_open) ==
    [AjaxDevice(device_id, device_type, hub_id) EXCEPT
        !.cls = "AjaxDoorSensor", !.is_open = Some(is_open)]

AjaxMotionSensor(device_id, device_type, hub_id, motion_detected) ==
    [AjaxDevice(device_id, device_type, hub_id) EXCEPT
        !.cls = "AjaxMotionSensor", !.motion_detected = Some(motion_detected)]

AjaxLeakSensor(device_id, device_type, hub_id, leak_detected) ==
    [AjaxDevice(device_id, device_type, hub_id) EXCEPT
        !.cls = "AjaxLeakSensor", !.leak_detected = Some(leak_detected)]

AjaxFireSensor(device_id, device_type, hub_id, smoke_detected) ==
    [AjaxDevice(device_id, device_type, hub_id) EXCEPT
        !.cls = "AjaxFireSensor", !.smoke_detected = Some(smoke_detected)]

\* AjaxHub(device_id, device_type, name, hub_id, state)
AjaxHub(device_id, device_type, hub_id, state) ==
    [cls |-> "AjaxHub", device_id |-> device_id, device_type |-> device_type,
     hub_id |-> hub_id, online |-> Some(TRUE), battery_level |-> None,
     state |-> state, last_event |-> None, last_event_time |-> None]

\* AjaxCoordinator(): hub = None, devices = {}, connected = False
AjaxCoordinator == [hub |-> None, devices |-> <<>>, connected |-> FALSE]

\* devices[device_id] = device
PutDevice(devices, device_id, device) ==
    [k \in DOMAIN devices \cup {device_id} |->
        IF k = device_id THEN device ELSE devices[k]]

(***************************************************************************)
(* coordinator.py: the handler of the receiver's events                    *)
(***************************************************************************)
\* _create_device_from_sia: the new device, or None
create_device_from_sia(d, device_id, sensor_type) ==
    LET hub_id == IF d.hub # None THEN d.hub[1].device_id ELSE "unknown" IN
    CASE sensor_type = "door" ->
            Some(AjaxDoorSensor(device_id, "DoorProtect", hub_id, FALSE))
      [] sensor_type = "motion" ->
            Some(AjaxMotionSensor(device_id, "MotionProtect", hub_id, FALSE))
      [] sensor_type = "leak" ->
            Some(AjaxLeakSensor(device_id, "LeaksProtect", hub_id, FALSE))
      [] sensor_type = "fire" ->
            Some(AjaxFireSensor(device_id, "FireProtect", hub_id, FALSE))
      [] sensor_type = "tamper" ->
            Some([AjaxDevice(device_id, "MotionProtect", hub_id) EXCEPT !.tamper = TRUE])
      [] OTHER -> None

\* lines 477-488: the attributes an existing device takes from the update
update_device_from_sia(device, upd) ==
    LET keys == DOMAIN upd
        d1 == IF HasAttr(device, "is_open") /\ "is_open" \in keys
              THEN [device EXCEPT !.is_open = Some(upd.is_open)] ELSE device
        d2 == IF HasAttr(d1, "motion_detected") /\ "motion_detected" \in keys
              THEN [d1 EXCEPT !.motion_detected = Some(upd.motion_detected)] ELSE d1
        d3 == IF HasAttr(d2, "leak_detected") /\ "leak_detected" \in keys
              THEN [d2 EXCEPT !.leak_detected = Some(upd.leak_detected)] ELSE d2
        d4 == IF HasAttr(d3, "smoke_detected") /\ "smoke_detected" \in keys
              THEN [d3 EXCEPT !.smoke_detected = Some(upd.smoke_detected)] ELSE d3
    IN  IF "tamper" \in keys THEN [d4 EXCEPT !.tamper = upd.tamper] ELSE d4

\* lines 453-456: the hub takes the state, the code and the time
set_hub_state(d, event, new_state) ==
    IF new_state # None /\ d.hub # None
    THEN [d EXCEPT !.hub = Some([d.hub[1] EXCEPT
                                    !.state = new_state[1],
                                    !.last_event = Some(event.event_code),
                                    !.last_event_time = Some(event.timestamp)])]
    ELSE d

\* lines 451-457 when only the first state-changing event is applied
apply_alarm_state_first_wins(d, event) ==
    IF d.hub # None /\ d.hub[1].last_event # None THEN d
    ELSE set_hub_state(d, event, sia_event_to_alarm_state(event))

\* lines 451-457: the hub takes the new alarm state
apply_alarm_state(d, event) ==
    set_hub_state(d, event, sia_event_to_alarm_state(event))

\* line 468 with the test always true
device_missing_always(devices, device_id) == TRUE

\* line 468: device_id not in self.data.devices
device_missing(devices, device_id) == device_id \notin DOMAIN devices

\* lines 459-488: the zone's device is created and updated.  "if zone:" is
\* false for None and for 0.
apply_sensor_state(d, event) ==
    LET sensor_update == sia_event_to_sensor_state(event) IN
    IF sensor_update = None THEN d
    ELSE LET upd == sensor_update[1]
             zone == upd.zone
         IN  IF zone = None \/ zone[1] = 0 THEN d
             ELSE LET device_id == "zone_" \o ToString(zone[1])
                      created == IF device_missing(d.devices, device_id)
                                 THEN create_device_from_sia(d, device_id, upd.type)
                                 ELSE None
                      devs1 == IF created # None
                               THEN PutDevice(d.devices, device_id, created[1])
                               ELSE d.devices
                      devs2 == IF device_id \in DOMAIN devs1
                               THEN [devs1 EXCEPT ![device_id] =
                                        update_device_from_sia(devs1[device_id], upd)]
                               ELSE devs1
                  IN  [d EXCEPT !.devices = devs2]

\* _handle_sia_event: the aggregate after the event
handle_sia_event(d, event) == apply_sensor_state(apply_alarm_state(d, event), event)

(***************************************************************************)
(* jeedom_mqtt_handler.py                                                  *)
(***************************************************************************)
Binary(attr, invert) ==
    [attr |-> attr, binary |-> TRUE, invert |-> invert, value |-> None]
Plain(attr) ==
    [attr |-> attr, binary |-> FALSE, invert |-> FALSE, value |-> None]
Fixed(attr, value) ==
    [attr |-> attr, binary |-> FALSE, invert |-> FALSE, value |-> Some(value)]

COMMAND_MAPPING ==
    "Trafiqué" :> Binary("tamper", FALSE) @@
    "Non trafiqué" :> Binary("tamper", TRUE) @@
    "Sabotage" :> Binary("tamper", FALSE) @@
    "En ligne" :> Binary("online", FALSE) @@
    "Hors ligne" :> Binary("online", TRUE) @@
    "Connecté" :> Binary("online", FALSE) @@
    "Déconnecté" :> Binary("online", TRUE) @@
    "Ethernet" :> Binary("ethernet", FALSE) @@
    "Alimentation secteur" :> Binary("power", FALSE) @@
    "Ouvert" :> Binary("is_open", TRUE) @@
    "Fermé" :> Binary("is_open", FALSE) @@
    "Ouverte" :> Binary("is_open", TRUE) @@
    "Fermée" :> Binary("is_open", FALSE) @@
    "Ouverture" :> Binary("is_open", TRUE) @@
    "Mouvement" :> Binary("motion", FALSE) @@
    "Mouvement détecté" :> Binary("motion", FALSE) @@
    "Fuite" :> Binary("leak", FALSE) @@
    "Fuite détectée" :> Binary("leak", FALSE) @@
    "Fuite d'eau" :> Binary("leak", FALSE) @@
    "Inondation" :> Binary("leak", FALSE) @@
    "Fumée" :> Binary("smoke", FALSE) @@
    "Fumée détectée" :> Binary("smoke", FALSE) @@
    "Incendie" :> Binary("fire", FALSE) @@
    "Température" :> Plain("temperature") @@
    "Batterie" :> Plain("battery") @@
    "Etat de la batterie" :> Plain("battery_state") @@
    "Signal" :> Plain("signal") @@
    "Etat" :> Plain("state") @@
    "Armé" :> Fixed("alarm_state", "armed") @@
    "Désarmé" :> Fixed("alarm_state", "disarmed") @@
    "Mode nuit" :> Fixed("alarm_state", "night")

\* in the order of the dict
DEVICE_TYPE_PATTERNS ==
    << [type |-> "hub", patterns |-> {"hub", "1020", "centrale", "hub 2"}],
       [type |-> "door", patterns |-> {"door", "doorprotect", "fin.", "porta",
                                       "finestra", "porte", "fenêtre",
                                       "ingresso", "entrata"}],
       [type |-> "motion", patterns |-> {"ir", "pir", "motion", "movimento",
                                         "motionprotect"}],
       [type |-> "siren", patterns |-> {"sirena", "sirène", "siren", "homesiren",
                                        "streetsiren"}],
       [type |-> "keypad", patterns |-> {"tastiera", "clavier", "keypad"}],
       [type |-> "remote", patterns |-> {"telecomando", "télécommande", "remote",
                                         "spacecontrol"}],
       [type |-> "leak", patterns |-> {"leak", "fuite", "acqua", "water",
                                       "leaksprotect"}],
       [type |-> "smoke", patterns |-> {"smoke", "fumée", "fire", "incendie",
                                        "fireprotect"}] >>

COMMAND_TO_DEVICE_TYPE ==
    "Ouvert" :> "door" @@ "Fermé" :> "door" @@ "Ouverte" :> "door" @@
    "Fermée" :> "door" @@ "Ouverture" :> "door" @@
    "Mouvement" :> "motion" @@ "Mouvement détecté" :> "motion" @@
    "Fuite" :> "leak" @@ "Fuite détectée" :> "leak" @@ "Fuite d'eau" :> "leak" @@
    "Inondation" :> "leak" @@
    "Fumée" :> "smoke" @@ "Fumée détectée" :> "smoke" @@ "Incendie" :> "smoke" @@
    "Ethernet" :> "hub" @@ "Alimentation secteur" :> "hub"

\* JeedomDevice(device_id, name, zone, device_type): every state attribute
\* starts as None, jeedom_commands as {} (last_update carries no behaviour)
JeedomDevice(device_id, name, zone, device_type) ==
    [device_id |-> device_id, name |-> name, zone |-> zone,
     device_type |-> device_type,
     tamper |-> None, online |-> None, is_open |-> None, motion |-> None,
     leak |-> None, smoke |-> None, fire |-> None, temperature |-> None,
     battery |-> None, battery_state |-> None, signal |-> None, state |-> None,
     alarm_state |-> None, ethernet |-> None, power |-> None,
     jeedom_commands |-> <<>>]

\* lines 252-255: CHARGED in any case is 100, else int(float(value))
battery_of(value) ==
    IF upper(value) = "CHARGED" THEN [outcome |-> "value", value |-> 100]
    ELSE int_of_float(value)

\* lines 262-272: the attribute is set; changed when the value differs
store_value(device, attr, new_value) ==
    [device |-> [device EXCEPT ![attr] = new_value],
     changed |-> device[attr] # new_value,
     raised |-> FALSE]

\* lines 252-259: ValueError and TypeError give None, OverflowError leaves
\* the method
store_battery(device, parsed) ==
    IF parsed.outcome = "OverflowError"
    THEN [device |-> device, changed |-> FALSE, raised |-> TRUE]
    ELSE store_value(device, "battery",
             IF parsed.outcome = "value" THEN Some(parsed.value) ELSE None)

\* JeedomDevice.update_from_command for a str value: the device, whether
\* the attribute changed, and whether the call raised (int() of a value
\* that is not a number)
update_from_command(device, command_name, value, topic_id) ==
    IF command_name \notin DOMAIN COMMAND_MAPPING
    THEN [device |-> device, changed |-> FALSE, raised |-> FALSE]
    ELSE
    LET mapping == COMMAND_MAPPING[command_name]
        attr == mapping.attr
        d1 == [device EXCEPT
                  !.jeedom_commands = SetItem(@, command_name, topic_id)]
    IN  IF mapping.binary
        THEN IF ~IsDigits(value)
             THEN [device |-> d1, changed |-> FALSE, raised |-> TRUE]
             ELSE LET as_bool == int(value) # 0
                      bool_value == IF mapping.invert THEN ~as_bool ELSE as_bool
                  IN  [device |-> [d1 EXCEPT ![attr] = Some(bool_value)],
                       changed |-> d1[attr] # Some(bool_value),
                       raised |-> FALSE]
        ELSE IF attr = "battery" THEN store_battery(d1, battery_of(value))
        ELSE store_value(d1, attr,
                 IF attr = "temperature"
                 THEN IF IsDigits(value) THEN Some(int(value)) ELSE None
                 ELSE IF mapping.value # None THEN mapping.value
                 ELSE Some(value))

\* _detect_device_type
detect_device_type(device_name) ==
    LET name_lower == lower(device_name)
        virtual_keywords == {"totale", "total", "tlc", "somma", "sum", "aggreg"}
        hits == {i \in 1..Len(DEVICE_TYPE_PATTERNS) :
                    \E pattern \in DEVICE_TYPE_PATTERNS[i].patterns :
                        Contains(name_lower, pattern)}
    IN  IF \E keyword \in virtual_keywords : Contains(name_lower, keyword)
        THEN "virtual"
        ELSE IF hits # {}
        THEN DEVICE_TYPE_PATTERNS[CHOOSE i \in hits : \A j \in hits : i <= j].type
        ELSE "unknown"

\* re.findall(r'\[([^\]]+)\]', human_name)
RECURSIVE findall_brackets(_)
findall_brackets(s) ==
    IF ~InStr("[", s) THEN <<>>
    ELSE LET i == CHOOSE i \in 1..Len(s) :
                     Char(s, i) = "[" /\ \A j \in 1..(i - 1) : Char(s, j) # "["
             rest == SubSeq(s, i + 1, Len(s))
         IN  IF ~InStr("]", rest) THEN <<>>
             ELSE LET j == CHOOSE j \in 1..Len(rest) :
                              Char(rest, j) = "]"
                              /\ \A l \in 1..(j - 1) : Char(rest, l) # "]"
                  IN  IF j = 1 THEN findall_brackets(rest)
                      ELSE <<SubSeq(rest, 1, j - 1)>>
                           \o findall_brackets(SubSeq(rest, j + 1, Len(rest)))

\* _parse_human_name: zone, device, command
parse_human_name(human_name) ==
    LET parts == findall_brackets(human_name) IN
    [zone |-> IF Len(parts) > 0 THEN parts[1] ELSE "",
     device |-> IF Len(parts) > 1 THEN parts[2] ELSE human_name,
     command |-> IF Len(parts) > 2 THEN parts[3] ELSE ""]

\* re.sub(r'[^a-zA-Z0-9]', '_', s)
RECURSIVE sub_non_alnum(_)
sub_non_alnum(s) ==
    IF s = "" THEN ""
    ELSE (IF InStr(Char(s, 1), LOWER \o UPPER \o DIGITS) THEN Char(s, 1) ELSE "_")
         \o sub_non_alnum(SubSeq(s, 2, Len(s)))

\* re.sub(r'_+', '_', s)
RECURSIVE sub_underscores(_)
sub_underscores(s) ==
    IF Len(s) < 2 THEN s
    ELSE IF Char(s, 1) = "_" /\ Char(s, 2) = "_"
    THEN sub_underscores(SubSeq(s, 2, Len(s)))
    ELSE Char(s, 1) \o sub_underscores(SubSeq(s, 2, Len(s)))

\* s.strip('_')
RECURSIVE strip_underscores(_)
strip_underscores(s) ==
    IF s = "" THEN ""
    ELSE IF Char(s, 1) = "_" THEN strip_underscores(SubSeq(s, 2, Len(s)))
    ELSE IF Char(s, Len(s)) = "_" THEN strip_underscores(SubSeq(s, 1, Len(s) - 1))
    ELSE s

clean_name(s) == lower(strip_underscores(sub_underscores(sub_non_alnum(s))))

\* _get_device_id
get_device_id(device_name, zone) ==
    IF zone # "" /\ lower(zone) \notin {"nessuno", "aucun", "none", ""}
    THEN "ajax_" \o clean_name(zone) \o "_" \o clean_name(device_name)
    ELSE "ajax_" \o clean_name(device_name)

\* topic.split("/")[-1]
RECURSIVE last_topic_part(_)
last_topic_part(topic) ==
    IF ~InStr("/", topic) THEN topic
    ELSE last_topic_part(SubSeq(topic, IndexIn("/", topic) + 1, Len(topic)))

\* An MQTT message: its topic and the fields of its JSON payload.
MqttMsg(topic, humanName, name, value) ==
    [topic |-> topic, humanName |-> humanName, name |-> name, value |-> value]

\* lines 383-390: the identifier _process_message resolves a human name to
resolve_device_id(human_name) ==
    LET parsed == parse_human_name(human_name)
    IN  get_device_id(parsed.device, parsed.zone)

\* _process_message: the registry afterwards and what is returned, None or
\* the pair (device, changed attribute or None)
process_message(devices, msg) ==
    LET topic_id == last_topic_part(msg.topic)
        value == msg.value
        human_name == msg.humanName
        command_name == msg.name
        parsed == parse_human_name(human_name)
        zone == parsed.zone
        device_name == parsed.device
        device_id == get_device_id(device_name, zone)
        is_new_device == device_id \notin DOMAIN devices
        device0 == IF is_new_device
                   THEN JeedomDevice(device_id, device_name, zone,
                                     detect_device_type(device_name))
                   ELSE devices[device_id]
        device1 == IF device0.device_type = "unknown"
                      /\ command_name \in DOMAIN COMMAND_TO_DEVICE_TYPE
                   THEN [device0 EXCEPT
                            !.device_type = COMMAND_TO_DEVICE_TYPE[command_name]]
                   ELSE device0
        upd == update_from_command(device1, command_name, value, topic_id)
        attr == IF upd.changed THEN COMMAND_MAPPING[command_name].attr
                ELSE "device_type"
    IN  IF human_name = "" \/ command_name = "" \/ device_name = ""
        THEN [devices |-> devices, result |-> None]
        ELSE IF upd.raised
        THEN [devices |-> SetItem(devices, device_id, upd.device),
              result |-> None]
        ELSE [devices |-> SetItem(devices, device_id, upd.device),
              result |-> Some([device_id |-> device_id,
                               changed_attr |->
                                   IF upd.changed \/ is_new_device
                                   THEN Some(attr) ELSE None])]

(***************************************************************************)
(* coordinator.py: the callback of the MQTT bridge                         *)
(***************************************************************************)
\* x or False, for an Optional[bool]
OrFalse(x) == x = Some(TRUE)

\* lines 218-219 with the alarm state taken over too
update_hub_from_jeedom_with_state(hub, jeedom_device) ==
    [hub EXCEPT !.battery_level = jeedom_device.battery,
                !.online = jeedom_device.online,
                !.state = IF jeedom_device.alarm_state = Some("armed")
                          THEN ARMED_AWAY
                          ELSE IF jeedom_device.alarm_state = Some("night")
                          THEN ARMED_NIGHT
                          ELSE IF jeedom_device.alarm_state = Some("disarmed")
                          THEN DISARMED
                          ELSE @]

\* lines 218-219: the hub takes battery and online from the bridge's hub
update_hub_from_jeedom(hub, jeedom_device) ==
    [hub EXCEPT !.battery_level = jeedom_device.battery,
                !.online = jeedom_device.online]

\* _create_device_from_jeedom: the hub afterwards, the device returned (or
\* None), and whether the call raised (AjaxDeviceType has no STREET_SIREN)
create_device_from_jeedom(d, jeedom_device, hub_id) ==
    LET device_type == jeedom_device.device_type
        device_id == jeedom_device.device_id
        Returns(device) == [hub |-> d.hub, device |-> device, raised |-> FALSE]
        door == AjaxDoorSensor(device_id, "DoorProtect", hub_id,
                               OrFalse(jeedom_device.is_open))
        motion == AjaxMotionSensor(device_id, "MotionProtect", hub_id,
                                   OrFalse(jeedom_device.motion))
        leak == AjaxLeakSensor(device_id, "LeaksProtect", hub_id,
                               OrFalse(jeedom_device.leak))
        smoke == AjaxFireSensor(device_id, "FireProtect", hub_id,
                                OrFalse(jeedom_device.smoke))
    IN  CASE device_type = "hub" ->
                IF d.hub # None
                THEN [hub |-> Some(update_hub_from_jeedom(d.hub[1], jeedom_device)),
                      device |-> None, raised |-> FALSE]
                ELSE Returns(Some(AjaxDevice(device_id, "Hub 2", hub_id)))
          [] device_type = "door" -> Returns(Some(door))
          [] device_type = "motion" -> Returns(Some(motion))
          [] device_type = "leak" -> Returns(Some(leak))
          [] device_type = "smoke" -> Returns(Some(smoke))
          [] device_type = "siren" ->
                [hub |-> d.hub, device |-> None, raised |-> TRUE]
          [] device_type = "keypad" ->
                Returns(Some(AjaxDevice(device_id, "KeyPad", hub_id)))
          [] device_type = "remote" ->
                Returns(Some(AjaxDevice(device_id, "SpaceControl", hub_id)))
          [] OTHER ->
                IF jeedom_device.is_open # None THEN Returns(Some(door))
                ELSE IF jeedom_device.motion # None THEN Returns(Some(motion))
                ELSE IF jeedom_device.leak # None THEN Returns(Some(leak))
                ELSE IF jeedom_device.smoke # None THEN Returns(Some(smoke))
                ELSE Returns(Some(AjaxDevice(device_id, "MotionProtect", hub_id)))

\* "if value is not None: device.attr = value"
assign_if_set(device, attr, value) ==
    IF value # None THEN [device EXCEPT ![attr] = value] ELSE device

\* "if jeedom_device.tamper is not None: ajax_device.tamper = ..."
assign_tamper(device, tamper) ==
    IF tamper # None THEN [device EXCEPT !.tamper = tamper[1]] ELSE device

\* "if hasattr(device, attr) and value is not None: device.attr = value"
assign_if_declared(device, attr, value) ==
    IF HasAttr(device, attr) /\ value # None
    THEN [device EXCEPT ![attr] = value]
    ELSE device

\* _update_device_from_jeedom (temperature, signal_level and jeedom_data are
\* not read by anything modelled here)
update_device_from_jeedom(ajax_device, jeedom_device) ==
    assign_if_declared(
      assign_if_declared(
        assign_if_declared(
          assign_if_declared(
            assign_if_set(
              assign_tamper(
                assign_if_set(ajax_device, "online", jeedom_device.online),
                jeedom_device.tamper),
              "battery_level", jeedom_device.battery),
            "is_open", jeedom_device.is_open),
          "motion_detected", jeedom_device.motion),
        "leak_detected", jeedom_device.leak),
      "smoke_detected", jeedom_device.smoke)

\* lines 176-187: an existing generic record whose bridge type is known
should_recreate(devices, jeedom_device) ==
    /\ jeedom_device.device_id \in DOMAIN devices
    /\ devices[jeedom_device.device_id].cls = "AjaxDevice"
    /\ jeedom_device.device_type # "unknown"
    /\ jeedom_device.device_type # "hub"

\* lines 191-201: what _create_device_from_jeedom returned is stored under
\* the identifier and updated; an exception leaves the callback
store_created(d, jeedom_device, created) ==
    IF created.raised THEN d
    ELSE IF created.device = None THEN [d EXCEPT !.hub = created.hub]
    ELSE [d EXCEPT
            !.hub = created.hub,
            !.devices = PutDevice(d.devices, jeedom_device.device_id,
                            update_device_from_jeedom(created.device[1],
                                                      jeedom_device))]

\* line 172
hub_id_or_default(d) == IF d.hub # None THEN d.hub[1].device_id ELSE "ajax_hub"

\* _handle_jeedom_sensor_update: the aggregate after the callback
handle_jeedom_sensor_update(d, jeedom_device) ==
    IF jeedom_device.device_id \notin DOMAIN d.devices
       \/ should_recreate(d.devices, jeedom_device)
    THEN store_created(d, jeedom_device,
             create_device_from_jeedom(d, jeedom_device, hub_id_or_default(d)))
    ELSE [d EXCEPT !.devices[jeedom_device.device_id] =
                       update_device_from_jeedom(@, jeedom_device)]

\* line 446, "if result:", which guards the callbacks and the dispatcher
callbacks_notified(processed) == processed.result # None

\* lines 446-462: the callbacks are called with the device of a result;
\* "if result:" is true of every pair, also of (device, None)
notify_callbacks(d, processed) ==
    [devices |-> processed.devices,
     notified |-> callbacks_notified(processed),
     data |-> IF callbacks_notified(processed)
              THEN handle_jeedom_sensor_update(
                       d, processed.devices[processed.result[1].device_id])
              ELSE d]

\* JeedomMqttHandler._handle_message with the coordinator's callback
\* registered: the registry and the aggregate afterwards
handle_mqtt_message(devices, d, msg) ==
    notify_callbacks(d, process_message(devices, msg))

(***************************************************************************)
(* mqtt_publisher.py                                                       *)
(***************************************************************************)
\* s.split(".")
RECURSIVE split_dot(_)
split_dot(s) ==
    LET points == {i \in 1..Len(s) : Char(s, i) = "."} IN
    IF points = {} THEN <<s>>
    ELSE LET i == CHOOSE j \in points : \A k \in points : j <= k
         IN  <<SubSeq(s, 1, i - 1)>> \o split_dot(SubSeq(s, i + 1, Len(s)))

\* line 154 without the hub's identifier
state_topic_without_hub(topic_prefix, hub_id, domain, object_id) ==
    topic_prefix \o "/" \o domain \o "/" \o object_id \o "/state"

\* line 154: f"{topic_prefix}/{hub_id}/{domain}/{object_id}/state"
state_topic(topic_prefix, hub_id, domain, object_id) ==
    topic_prefix \o "/" \o hub_id \o "/" \o domain \o "/" \o object_id \o "/state"

\* AjaxMqttPublisher._async_publish_state: the topic published to, or None.
\* new_state is the event's new state, None when the entity was removed.
async_publish_state(topic_prefix, hub_id, entity_id, new_state) ==
    LET parts == split_dot(entity_id) IN
    IF new_state = None THEN None
    ELSE IF Len(parts) # 2 THEN None
    ELSE Some(state_topic(topic_prefix, hub_id, parts[1], parts[2]))

\* AjaxMqttPublisher.__init__
AjaxMqttPublisher ==
    [is_running |-> FALSE, tracked_entities |-> {}, unsubscribe_callbacks |-> <<>>]

\* track_entity without its first test
is_tracked_never(publisher, entity_id) == FALSE

\* line 106: entity_id in self._tracked_entities
is_tracked(publisher, entity_id) == entity_id \in publisher.tracked_entities

\* AjaxMqttPublisher.track_entity, on the publisher and the host's watchers
track_entity(st, entity_id) ==
    IF is_tracked(st.publisher, entity_id) THEN st
    ELSE IF ~st.publisher.is_running THEN st
    ELSE [publisher |->
              [st.publisher EXCEPT
                  !.tracked_entities = @ \cup {entity_id},
                  !.unsubscribe_callbacks = Append(@, entity_id)],
          watchers |-> [st.watchers EXCEPT ![entity_id] = @ + 1]]

\* async_setup_mqtt_publisher: for entity_id in self._tracked_entity_ids
RECURSIVE track_registered(_, _)
track_registered(st, entity_ids) ==
    IF entity_ids = <<>> THEN st
    ELSE track_registered(track_entity(st, Head(entity_ids)), Tail(entity_ids))

\* AjaxMqttPublisher.async_stop: for unsubscribe in self._unsubscribe_callbacks
RECURSIVE unsubscribe_all(_, _)
unsubscribe_all(w, callbacks) ==
    IF callbacks = <<>> THEN w
    ELSE unsubscribe_all([w EXCEPT ![Head(callbacks)] = @ - 1], Tail(callbacks))

(***************************************************************************)
(* config_flow.py: the steps of AjaxSystemsConfigFlow.  A step returns a    *)
(* form (with the errors it was given), an entry, or an abort.              *)
(***************************************************************************)
\* async_show_form(step_id, errors); errors is None for {} and Some(code)
\* for {"base": code}
show_form(step_id, errors) ==
    [type |-> "form", step_id |-> step_id, errors |-> errors]

\* async_set_unique_id, _abort_if_unique_id_configured, async_create_entry
create_entry(unique_id, use, configured) ==
    IF unique_id \in configured
    THEN [type |-> "abort", reason |-> "already_configured"]
    ELSE [type |-> "create_entry", unique_id |-> unique_id, use |-> use]

\* async_step_sia (lines 97-155): no probe
async_step_sia(user_input, configured) ==
    IF user_input = None THEN show_form("sia", None)
    ELSE create_entry("ajax_sia_" \o user_input[1].target, "use_sia", configured)

\* async_step_mqtt (lines 371-411): no probe
async_step_mqtt(user_input, configured) ==
    IF user_input = None THEN show_form("mqtt", None)
    ELSE create_entry("ajax_mqtt_" \o user_input[1].target, "use_mqtt", configured)

\* What a live probe (authenticate, then get_hubs) ends in.
ProbeOutcomes ==
    {"ImportError", "AuthError", "ConnectionError", "Exception 404",
     "Exception 403", "Exception", "no_hubs", "hubs"}

\* line 165: errors["base"] = "cloud_api_closed", set on every submission
cloud_warning == Some("cloud_api_closed")

\* lines 172-197: the errors after the cloud probe
cloud_probe(errors, outcome) ==
    CASE outcome = "hubs" -> errors
      [] outcome = "no_hubs" -> Some("cloud_api_closed")
      [] outcome = "AuthError" -> Some("cloud_api_closed")
      [] outcome = "ConnectionError" -> Some("cannot_connect")
      [] outcome = "ImportError" -> Some("unknown")
      [] OTHER -> Some("cloud_api_closed")

\* lines 199-244: "if not errors" creates the entry, else the form is shown
cloud_finish(user_input, errors, configured) ==
    IF errors = None
    THEN create_entry("ajax_cloud_" \o user_input.target, "use_cloud", configured)
    ELSE show_form("cloud", errors)

\* async_step_cloud (lines 157-244)
async_step_cloud(user_input, outcome, configured) ==
    IF user_input = None THEN show_form("cloud", None)
    ELSE IF ~user_input[1].try_anyway THEN show_form("cloud", cloud_warning)
    ELSE cloud_finish(user_input[1], cloud_probe(cloud_warning, outcome),
                      configured)

\* lines 259-302: the errors after the proxy probe
jeedom_probe(outcome) ==
    CASE outcome = "hubs" -> None
      [] outcome = "no_hubs" -> Some("no_hubs")
      [] outcome = "AuthError" -> Some("invalid_jeedom_auth")
      [] outcome = "ConnectionError" -> Some("cannot_connect")
      [] outcome = "Exception 404" -> Some("jeedom_service_unavailable")
      [] outcome = "Exception 403" -> Some("invalid_jeedom_auth")
      [] outcome = "ImportError" -> Some("unknown")
      [] OTHER -> Some("jeedom_proxy_error")

\* the entry is created whatever the probe found
jeedom_finish_ignoring_errors(user_input, errors, configured) ==
    create_entry("ajax_jeedom_" \o user_input.target, "use_jeedom_proxy",
                 configured)

\* lines 304-369
jeedom_finish(user_input, errors, configured) ==
    IF errors = None
    THEN create_entry("ajax_jeedom_" \o user_input.target, "use_jeedom_proxy",
                      configured)
    ELSE show_form("jeedom", errors)

\* async_step_jeedom (lines 246-369)
async_step_jeedom(user_input, outcome, configured) ==
    IF user_input = None THEN show_form("jeedom", None)
    ELSE jeedom_finish(user_input[1], jeedom_probe(outcome), configured)

\* The step of a mode, as async_step_user dispatches (lines 66-76)
async_step(mode, user_input, outcome, configured) ==
    CASE mode = "sia" -> async_step_sia(user_input, configured)
      [] mode = "mqtt" -> async_step_mqtt(user_input, configured)
      [] mode = "cloud" -> async_step_cloud(user_input, outcome, configured)
      [] mode = "jeedom" -> async_step_jeedom(user_input, outcome, configured)

(***************************************************************************)
(* api/ajax_cloud.py: the errors of the vendor-cloud client                *)
(***************************************************************************)
\* AjaxAuthError and AjaxConnectionError derive from AjaxApiError (lines
\* 52-61); TimeoutError stands for an exception that is none of them
is_api_error(exc) ==
    exc \in {"AjaxApiError", "AjaxAuthError", "AjaxConnectionError"}

\* What the server, or the network, answers to one request.
HttpOutcomes == {"200", "302", "401", "403", "500", "ClientError"}

\* _request: the exception raised, or None when it returned
request(outcome) ==
    CASE outcome \in {"200", "302"} -> None
      [] outcome \in {"401", "403"} -> Some("AjaxAuthError")
      [] outcome = "ClientError" -> Some("AjaxConnectionError")
      [] OTHER -> Some("AjaxApiError")

\* authenticate, lines 228-237: the handlers of its try block
cloud_authenticate_except(exc) ==
    IF exc = "AjaxAuthError" THEN "AjaxAuthError"
    ELSE IF is_api_error(exc) THEN "AjaxAuthError"
    ELSE "AjaxAuthError"

\* authenticate: the exception raised, or None when it returned True; the
\* login request, then _get_csa_connection's request
cloud_authenticate(login, csa) ==
    IF request(login) # None THEN Some(cloud_authenticate_except(request(login)[1]))
    ELSE IF request(csa) # None THEN Some(cloud_authenticate_except(request(csa)[1]))
    ELSE None

\* get_hubs on an authenticated client with no hub cached: "raised" with the
\* exception, or the number of hubs returned; "except AjaxApiError" returns
\* the cached hubs
cloud_get_hubs(hubs_data, nhubs) ==
    IF request(hubs_data) = None THEN [raised |-> None, hubs |-> nhubs]
    ELSE IF is_api_error(request(hubs_data)[1]) THEN [raised |-> None, hubs |-> 0]
    ELSE [raised |-> request(hubs_data), hubs |-> 0]

\* config_flow.py lines 176-193: the probe of async_step_cloud, as the
\* outcome its handlers tell apart
cloud_probe_outcome(login, csa, hubs_data, nhubs) ==
    LET auth == cloud_authenticate(login, csa)
        listed == cloud_get_hubs(hubs_data, nhubs)
        raised == IF auth # None THEN auth ELSE listed.raised
    IN  IF raised = Some("AjaxAuthError") THEN "AuthError"
        ELSE IF raised = Some("AjaxConnectionError") THEN "ConnectionError"
        ELSE IF raised # None THEN "Exception"
        ELSE IF listed.hubs = 0 THEN "no_hubs"
        ELSE "hubs"

\* the probe of async_step_cloud with try_anyway: what the client raised to
\* the wizard and the error code the step shows
cloud_probe_run(login, csa, hubs_data, nhubs) ==
    [outcome |-> cloud_probe_outcome(login, csa, hubs_data, nhubs),
     error |-> cloud_probe(cloud_warning,
                           cloud_probe_outcome(login, csa, hubs_data, nhubs))]

(***************************************************************************)
(* api/jeedom_proxy.py: the login of the proxy client                       *)
(***************************************************************************)
\* JeedomProxyApi.__init__, lines 125-129: the auth state
NewProxy ==
    [user_id |-> None, session_token |-> None, refresh_token |-> None,
     authenticated |-> FALSE]

\* a client after a login that returned all three values
LoggedInProxy ==
    [user_id |-> Some("u1"), session_token |-> Some("s1"),
     refresh_token |-> Some("r1"), authenticated |-> TRUE]

\* "not value" of an Optional[str]: None and the empty string are falsy
falsy(value) == value = None \/ value = Some("")

\* What _request gives authenticate for /login: a dict, as a function from
\* its keys, or the exception it raised.
LoginKeys == {"sessionToken", "refreshToken", "userId"}
LoginValues == {"", "tok"}
LoginResponses ==
    UNION {[keys -> LoginValues] : keys \in SUBSET LoginKeys}
LoginOutcomes ==
    {[raised |-> None, response |-> r] : r \in LoginResponses}
    \cup {[raised |-> Some(e), response |-> <<>>] :
             e \in {"JeedomAuthError", "JeedomProxyError", "JeedomConnectionError"}}

\* response.get(key)
response_get(response, key) ==
    IF key \in DOMAIN response THEN Some(response[key]) ELSE None

\* authenticate, lines 237-278: the client afterwards and the exception
\* raised, None when it returned True
proxy_authenticate(client, outcome) ==
    IF outcome.raised # None
    THEN [client |-> client, raised |-> outcome.raised]
    ELSE LET stored ==
                 [client EXCEPT
                     !.session_token = response_get(outcome.response, "sessionToken"),
                     !.refresh_token = response_get(outcome.response, "refreshToken"),
                     !.user_id = response_get(outcome.response, "userId")]
         IN  IF falsy(stored.session_token) \/ falsy(stored.user_id)
             THEN [client |-> stored, raised |-> Some("JeedomAuthError")]
             ELSE [client |-> [stored EXCEPT !.authenticated = TRUE],
                   raised |-> None]

(***************************************************************************)

(* config_flow.py and coordinator.py: the record the wizard writes in       *)
(* MQTT-bridge mode and what AjaxDataCoordinator reads from it             *)
(***************************************************************************)
\* dict.get(key, default)
get(d, key, default) == IF key \in DOMAIN d THEN d[key] ELSE default

DEFAULT_MQTT_PREFIX == "jeedom/cmd"
DEFAULT_SIA_PORT == 2410
DEFAULT_JEEDOM_MQTT_TOPIC == "jeedom/cmd/event"

\* coordinator.py imports CONF_JEEDOM_MQTT_ENABLED and CONF_JEEDOM_MQTT_TOPIC
\* from const.py (lines 17-18), which defines neither: the import raises.
\* With the names defined, they are keys of their own.
CONF_JEEDOM_MQTT_ENABLED == "jeedom_mqtt_enabled"
CONF_JEEDOM_MQTT_TOPIC == "jeedom_mqtt_topic"

\* async_step_mqtt, lines 378-385: self._data
mqtt_entry_data(user_input) ==
    [use_sia |-> get(user_input, "use_sia", FALSE),
     use_cloud |-> FALSE,
     use_mqtt |-> TRUE,
     hub_id |-> get(user_input, "hub_id", "ajax_hub"),
     mqtt_prefix |-> get(user_input, "mqtt_prefix", DEFAULT_MQTT_PREFIX),
     sia_port |-> get(user_input, "sia_port", DEFAULT_SIA_PORT)]

\* AjaxDataCoordinator.__init__ (lines 57-61) and _setup_jeedom_mqtt (line
\* 128): what the coordinator takes from entry.data; None when importing
\* coordinator.py raised ImportError
coordinator_settings(entry_data, import_ok) ==
    IF ~import_ok THEN None
    ELSE Some([use_sia |-> get(entry_data, "use_sia", TRUE),
               use_jeedom_mqtt |-> get(entry_data, CONF_JEEDOM_MQTT_ENABLED, FALSE),
               topic |-> get(entry_data, CONF_JEEDOM_MQTT_TOPIC,
                             DEFAULT_JEEDOM_MQTT_TOPIC)])

\* the wizard's MQTT step is submitted and the entry is set up
setup_after_mqtt_step(user_input, import_ok) ==
    [data |-> mqtt_entry_data(user_input),
     coordinator |-> coordinator_settings(mqtt_entry_data(user_input), import_ok)]

(***************************************************************************)

(* coordinator.py and alarm_control_panel.py: the commands                 *)
(***************************************************************************)
\* the command is accepted
async_arm_accepted == TRUE

\* async_arm, async_disarm, async_arm_night: each logs and returns False
async_arm == FALSE
async_disarm == FALSE
async_arm_night == FALSE

\* self._hub.state = state
SetHubState(d, state) == [d EXCEPT !.hub = Some([d.hub[1] EXCEPT !.state = state])]

\* AjaxAlarmPanel.async_alarm_disarm / _arm_away / _arm_night: the state is
\* written only if the coordinator's command returned True
async_alarm_disarm(d) == IF async_disarm THEN SetHubState(d, DISARMED) ELSE d
async_alarm_arm_away(d) == IF async_arm THEN SetHubState(d, ARMED_AWAY) ELSE d
async_alarm_arm_night(d) == IF async_arm_night THEN SetHubState(d, ARMED_NIGHT) ELSE d

(***************************************************************************)
(* sia/receiver.py: SiaProtocol.                                           *)
(*                                                                         *)
(* The bytes of a connection are modelled as lexemes, the units the three   *)
(* regular expressions of the module tell apart:                           *)
(*   CR, LF      the bytes 0x0D and 0x0A                                    *)
(*   HDR         "SIA-DCS"<seq>L0#<account>    the DC-09 envelope           *)
(*   AJAX        [#<account>|Nri0/<code><zone>]                             *)
(*   STD         [#<account>|<code>/<zone>]  or  [#<account>|<code>]        *)
(*   BARE        [<code>/<zone>]  or  [<code>]                              *)
(*   TEXT        text that holds no bracket, quote, CR or LF and does not   *)
(*               start with a word character                               *)
(* zone is the digit string of the message ("" when it has none).           *)
(***************************************************************************)
Lexeme(k, seq, account, code, zone) ==
    [k |-> k, seq |-> seq, account |-> account, code |-> code, zone |-> zone]

CR == Lexeme("CR", "", "", "", "")
LF == Lexeme("LF", "", "", "", "")
HDR(seq, account) == Lexeme("HDR", seq, account, "", "")
AJAX(account, code, zone) == Lexeme("AJAX", "", account, code, zone)
STD(account, code, zone) == Lexeme("STD", "", account, code, zone)
BARE(code, zone) == Lexeme("BARE", "", "", code, zone)
TEXT == Lexeme("TEXT", "", "", "", "")

\* The index of the first lexeme of text whose kind is in kinds, 0 when
\* there is none.
FirstIndex(text, kinds) ==
    IF \E i \in 1..Len(text) : text[i].k \in kinds
    THEN CHOOSE i \in 1..Len(text) :
            text[i].k \in kinds /\ \A j \in 1..(i - 1) : text[j].k \notin kinds
    ELSE 0

\* the envelope directly followed by a bracketed block
IsDc09(text, i) ==
    /\ text[i].k = "HDR"
    /\ i < Len(text)
    /\ text[i + 1].k \in {"AJAX", "STD", "BARE"}

\* AJAX_SIA_PATTERN.search(text): the match, or None
AJAX_SIA_PATTERN(text) ==
    LET i == FirstIndex(text, {"AJAX"}) IN
    IF i = 0 THEN None
    ELSE Some([account |-> text[i].account, code |-> text[i].code,
               zone |-> text[i].zone])

\* SIA_MESSAGE_PATTERN.search(text): the match, or None
SIA_MESSAGE_PATTERN(text) ==
    LET i == FirstIndex(text, {"STD"}) IN
    IF i = 0 THEN None
    ELSE Some([account |-> text[i].account, code |-> text[i].code,
               zone |-> text[i].zone])

\* SIA_DC09_PATTERN.search(text): the match, or None; data is the bracketed
\* block that follows the envelope
SIA_DC09_PATTERN(text) ==
    IF \E i \in 1..Len(text) : IsDc09(text, i)
    THEN LET i == CHOOSE i \in 1..Len(text) :
                    IsDc09(text, i) /\ \A j \in 1..(i - 1) : ~IsDc09(text, j)
         IN  Some([seq |-> text[i].seq, account |-> text[i].account,
                   data |-> text[i + 1]])
    ELSE None

\* re.search(r'"SIA-DCS"(\w+)L', message): the sequence, or None
SeqSearch(text) ==
    LET i == FirstIndex(text, {"HDR"}) IN
    IF i = 0 THEN None ELSE Some(text[i].seq)

\* f"[{data}]": the bracketed block again
BracketData(blk) == <<blk>>

\* f"[#{account}|{data}]": a generic block when data is <code>/<zone>;
\* otherwise data starts with "#", so that no pattern matches the text
BracketAccountData(account, blk) ==
    IF blk.k = "BARE" THEN <<STD(account, blk.code, blk.zone)>>
    ELSE <<TEXT>>

\* _parse_event without its account check
parse_event_no_filter(match, config_account) ==
    LET zone == IF match.zone # "" THEN Some(int(match.zone)) ELSE None IN
    Some(SiaEvent(match.account, match.code, zone))

\* _parse_ajax_event without its account check
parse_ajax_event_no_filter(match, config_account) ==
    LET zone == IF match.zone # "" THEN Some(int(match.zone)) ELSE None IN
    Some(SiaEvent(match.account, match.code, zone))

\* _parse_event and _parse_ajax_event: the event, or None when an account is
\* configured and the message's account is another one
parse_event(match, config_account) ==
    LET zone == IF match.zone # "" THEN Some(int(match.zone)) ELSE None IN
    IF config_account # "" /\ match.account # config_account
    THEN None
    ELSE Some(SiaEvent(match.account, match.code, zone))

parse_ajax_event(match, config_account) ==
    LET zone == IF match.zone # "" THEN Some(int(match.zone)) ELSE None IN
    IF config_account # "" /\ match.account # config_account
    THEN None
    ELSE Some(SiaEvent(match.account, match.code, zone))

\* _send_ack's bytes
AckBytes(sequence) ==
    IF sequence # None /\ sequence[1] # ""
    THEN "\"ACK\"" \o sequence[1] \o "L0#[]\r\n"
    ELSE "ACK\r\n"

\* _handle_message: the event the message yields and the sequence its
\* acknowledgment carries, or None when no pattern yields an event
handle_message(message, config_account) ==
    LET ajax_match == AJAX_SIA_PATTERN(message)
        ajax_event == IF ajax_match = None THEN None
                      ELSE parse_ajax_event(ajax_match[1], config_account)
        match == SIA_DC09_PATTERN(message)
        ajax_data_match == IF match = None THEN None
                           ELSE AJAX_SIA_PATTERN(BracketData(match[1].data))
        ajax_data_event == IF ajax_data_match = None THEN None
                           ELSE parse_ajax_event(ajax_data_match[1], config_account)
        data_match == IF match = None THEN None
                      ELSE SIA_MESSAGE_PATTERN(
                               BracketAccountData(match[1].account, match[1].data))
        data_event == IF data_match = None THEN None
                      ELSE parse_event(data_match[1], config_account)
        simple_match == SIA_MESSAGE_PATTERN(message)
        simple_event == IF simple_match = None THEN None
                        ELSE parse_event(simple_match[1], config_account)
    IN  IF ajax_event # None
        THEN Some([event |-> ajax_event[1], seq |-> SeqSearch(message)])
        ELSE IF ajax_data_event # None
        THEN Some([event |-> ajax_data_event[1], seq |-> Some(match[1].seq)])
        ELSE IF data_event # None
        THEN Some([event |-> data_event[1], seq |-> Some(match[1].seq)])
        ELSE IF simple_event # None
        THEN Some([event |-> simple_event[1], seq |-> None])
        ELSE None

\* One call on the connection: transport.write(ack) or event_callback(event),
\* made while message number msg of the connection was handled.
WriteCall(msg, ack) == [op |-> "write", msg |-> msg, ack |-> ack, event |-> None]
CallbackCall(msg, event) == [op |-> "callback", msg |-> msg, ack |-> "", event |-> Some(event)]

\* the event handed over before the acknowledgment is written
message_calls_callback_first(n, r, has_transport) ==
    <<CallbackCall(n, r.event)>>
    \o (IF has_transport THEN <<WriteCall(n, AckBytes(r.seq))>> ELSE <<>>)

\* _handle_message, lines 145-146 (and 160-161, 170-171, 179-180):
\* self._send_ack(seq), which writes if the transport is set, and then
\* self.event_callback(event)
message_calls(n, r, has_transport) ==
    (IF has_transport THEN <<WriteCall(n, AckBytes(r.seq))>> ELSE <<>>)
    \o <<CallbackCall(n, r.event)>>

\* self._buffer = data: what was buffered is dropped
buffer_append_overwrite(buf, chunk) == chunk

\* self._buffer += data
buffer_append(buf, chunk) == buf \o chunk

\* The protocol after an exception left _handle_message: data_received
\* catches it inside its loop and goes on with the rest of the buffer.
RECURSIVE drain(_, _, _)
\* the exception leaves data_received: the rest stays in the buffer
after_exception_abort(st, config_account, raises) == st

after_exception(st, config_account, raises) == drain(st, config_account, raises)

\* The while loop of data_received.  st holds the protocol's buffer, its
\* calls so far (log), the messages handled (n), whether its transport is
\* set, and the coordinator's aggregate (data), which the callback changes.
drain(st, config_account, raises) ==
    LET end_idx == FirstIndex(st.buffer, {"CR", "LF"}) IN
    IF st.buffer = <<>> \/ end_idx = 0 THEN st
    ELSE LET message == SubSeq(st.buffer, 1, end_idx - 1)
             rest == SubSeq(st.buffer, end_idx + 1, Len(st.buffer))
         IN  IF message = <<>>
             THEN drain([st EXCEPT !.buffer = rest], config_account, raises)
             ELSE LET r == handle_message(message, config_account)
                      n == st.n + 1
                  IN  IF r = None
                      THEN drain([st EXCEPT !.buffer = rest, !.n = n],
                                 config_account, raises)
                      ELSE LET st2 == [st EXCEPT
                                         !.buffer = rest,
                                         !.n = n,
                                         !.log = st.log \o message_calls(
                                                     n, r[1], st.has_transport),
                                         !.data = handle_sia_event(st.data, r[1].event)]
                           IN  IF raises
                               THEN after_exception(st2, config_account, raises)
                               ELSE drain(st2, config_account, raises)

(***************************************************************************)
(* The state after AjaxDataCoordinator.__init__, and the inputs.           *)
(***************************************************************************)
FnIdle == fnCall = None /\ fnRes = None

\* The SiaProtocol instances the server's factory may create.
Conns == {"c1", "c2"}

\* entry.data.get(CONF_HUB_ID, "ajax_hub")
ConfHubId == IF cfg.hub_id = None THEN "ajax_hub" ELSE cfg.hub_id[1]
\* entry.data.get(CONF_SIA_ACCOUNT, "AAA")
ConfSiaAccount == IF cfg.sia_account = None THEN "AAA" ELSE cfg.sia_account[1]

ConfigEntry(use_sia, use_jeedom_mqtt, hub_id, sia_account) ==
    [use_sia |-> use_sia, use_jeedom_mqtt |-> use_jeedom_mqtt,
     hub_id |-> hub_id, sia_account |-> sia_account]

\* The messages a peer sends, each with its terminator.
MessageCatalogue ==
    { <<AJAX("AAA", "CL", ""), LF>>,
      <<HDR("3463", "AAA"), AJAX("AAA", "ZO", "1"), CR, LF>>,
      <<HDR("3463", "AAA"), AJAX("BBB", "CL", "1"), CR>>,
      <<HDR("3463", "BBB"), AJAX("AAA", "BA", "1"), LF>>,
      <<STD("AAA", "OP", "1"), LF>>,
      <<STD("BBB", "OP", "1"), LF>>,
      <<HDR("3463", "AAA"), STD("AAA", "BA", "2"), CR>>,
      <<HDR("3463", "AAA"), BARE("NL", "0"), CR>>,
      <<HDR("3463", "BBB"), BARE("CL", ""), LF>>,
      <<TEXT, LF>> }

RECURSIVE Flatten(_)
Flatten(seqs) == IF seqs = <<>> THEN <<>> ELSE Head(seqs) \o Flatten(Tail(seqs))

\* The byte streams made of n messages.
Streams(n) == {Flatten(ms) : ms \in [1..n -> MessageCatalogue]}

\* Every assignment of streams to the connections with at most MaxMsgs
\* messages in all; the connections are alike, so c1 is the one that gets
\* no fewer messages than c2.
Wires ==
    UNION { { [c \in Conns |-> IF c = "c1" THEN a ELSE b] :
                a \in Streams(ij[1]), b \in Streams(ij[2]) } :
            ij \in {x \in (0..MaxMsgs) \X (0..MaxMsgs) :
                       x[1] + x[2] <= MaxMsgs /\ x[1] >= x[2]} }

SiaIdle ==
    /\ transport = [c \in Conns |-> "new"]
    /\ buffer = [c \in Conns |-> <<>>]
    /\ carried = [c \in Conns |-> FALSE]
    /\ pos = [c \in Conns |-> 0]
    /\ nmsg = [c \in Conns |-> 0]
    /\ log = [c \in Conns |-> <<>>]

\* The last call: its kind, its argument, and its outcome: for a command
\* what it returned, for a bridge message whether the callbacks were called.
Op(kind, arg, result) == [kind |-> kind, arg |-> arg, result |-> result]

CoordConstructed ==
    /\ setup = [pc |-> "init", sia_ok |-> FALSE, jeedom_mqtt_ok |-> FALSE,
                result |-> None]
    /\ data = AjaxCoordinator
    /\ running = FALSE
    /\ mqtt = [subscribed |-> FALSE, devices |-> <<>>]
    /\ op = Op("__init__", None, None)
    /\ nin = [sia |-> 0, mqtt |-> 0]

(***************************************************************************)
(* The entry's life after async_setup: the platforms register their         *)
(* entities, async_setup_mqtt_publisher runs from await to await, commands  *)
(* are sent, and async_unload_entry shuts the coordinator down.             *)
(***************************************************************************)
\* The entities the platforms create (alarm_control_panel.py, binary_sensor.py).
Entities == {"alarm_control_panel.ajax_hub1", "binary_sensor.porta"}

\* SiaReceiver: _server is set, _running
SiaReceiver(started) == [server |-> started, running |-> started]
\* JeedomMqttHandler: its _unsubscribe list holds a subscription
JeedomMqttHandler(started) == [subscribed |-> started]

\* What the entry and the host decide about the publisher: the entry enables
\* it, the host has MQTT, the entry enables discovery.
PublishSettings ==
    {[use_mqtt_publish |-> u, mqtt_available |-> a, discovery_enabled |-> d] :
        u \in BOOLEAN, a \in BOOLEAN, d \in BOOLEAN}

\* The polling HTTP transport the entry configures (config_flow.py writes
\* use_cloud or use_jeedom_proxy) and what its client answers to a command.
HttpTransports ==
    {None} \cup {Some([transport |-> t, accepts |-> a]) :
                    t \in {"use_cloud", "use_jeedom_proxy"}, a \in BOOLEAN}

Life(publish, http) ==
    [publish |-> publish, http |-> http, pubsetup |-> "idle", nreg |-> 0,
     registered_at |-> [e \in Entities |-> "never"],
     command |-> None, shutdown |-> None]

\* AjaxDataCoordinator.__init__ for the fields of the entry's life
LifeIdle ==
    /\ sia_receiver = None
    /\ jeedom_mqtt_handler = None
    /\ mqtt_publisher = None
    /\ tracked_entity_ids = <<>>
    /\ watchers = [e \in Entities |-> 0]
    /\ life = Life([use_mqtt_publish |-> FALSE, mqtt_available |-> FALSE,
                    discovery_enabled |-> FALSE], None)

\* binary_sensor.py, async_setup_entry not yet called
NoPlatform == [loaded |-> FALSE, added_devices |-> {}, entities |-> {}]

\* sia/receiver.py, SiaReceiver.__init__ (lines 267-268): _server and
\* _running; around them the servers listening on the port (listening), the
\* servers created so far (nservers) and the calls made (calls)
NewReceiver ==
    [server |-> None, running |-> FALSE, listening |-> {}, nservers |-> 0,
     calls |-> <<>>]

HostIdle ==
    /\ binary_sensor = NoPlatform
    /\ receiver = NewReceiver

InSeq(x, seq) == \E i \in 1..Len(seq) : seq[i] = x

\* register_entity_for_mqtt
RegisterEntity(entity_id) ==
    /\ life.shutdown = None
    /\ life.nreg < MaxRegistrations
    /\ IF InSeq(entity_id, tracked_entity_ids)
       THEN /\ UNCHANGED <<tracked_entity_ids, mqtt_publisher, watchers>>
            /\ life' = [life EXCEPT !.nreg = @ + 1]
       ELSE /\ tracked_entity_ids' = Append(tracked_entity_ids, entity_id)
            /\ life' = [life EXCEPT !.nreg = @ + 1,
                                    !.registered_at[entity_id] = life.pubsetup]
            /\ IF mqtt_publisher # None
               THEN LET st == track_entity([publisher |-> mqtt_publisher[1],
                                            watchers |-> watchers], entity_id)
                    IN  /\ mqtt_publisher' = Some(st.publisher)
                        /\ watchers' = st.watchers
               ELSE UNCHANGED <<mqtt_publisher, watchers>>
    /\ UNCHANGED <<sia_receiver, jeedom_mqtt_handler, fnVars, coordVars, siaVars, hostVars>>

\* async_setup_mqtt_publisher after a successful async_start (lines 394-398)
PublisherStarted(publisher) ==
    LET st == track_registered([publisher |-> publisher, watchers |-> watchers],
                               tracked_entity_ids)
    IN  /\ mqtt_publisher' = Some(st.publisher)
        /\ watchers' = st.watchers
        /\ life' = [life EXCEPT !.pubsetup = "done"]

\* async_setup_mqtt_publisher up to the await of _publish_discovery inside
\* async_start, or to its end when nothing is awaited
PublisherSetupBegin ==
    /\ life.pubsetup = "idle"
    /\ life.shutdown = None
    /\ IF ~life.publish.use_mqtt_publish
       THEN /\ life' = [life EXCEPT !.pubsetup = "done"]
            /\ UNCHANGED <<mqtt_publisher, watchers>>
       ELSE IF ~life.publish.mqtt_available
       THEN /\ mqtt_publisher' = None
            /\ life' = [life EXCEPT !.pubsetup = "done"]
            /\ UNCHANGED watchers
       ELSE IF life.publish.discovery_enabled
       THEN /\ mqtt_publisher' = Some([AjaxMqttPublisher EXCEPT !.is_running = TRUE])
            /\ life' = [life EXCEPT !.pubsetup = "discovery"]
            /\ UNCHANGED watchers
       ELSE PublisherStarted([AjaxMqttPublisher EXCEPT !.is_running = TRUE])
    /\ UNCHANGED <<sia_receiver, jeedom_mqtt_handler, tracked_entity_ids,
                   fnVars, coordVars, siaVars, hostVars>>

\* async_setup_mqtt_publisher from the return of _publish_discovery
PublisherSetupResume ==
    /\ life.pubsetup = "discovery"
    /\ PublisherStarted(mqtt_publisher[1])
    /\ UNCHANGED <<sia_receiver, jeedom_mqtt_handler, tracked_entity_ids,
                   fnVars, coordVars, siaVars, hostVars>>

\* async_arm, async_disarm, async_arm_night: what the call returns and the
\* calls it makes on an HTTP client
dispatch_command(name) ==
    [name |-> name,
     result |-> CASE name = "async_arm" -> async_arm
                  [] name = "async_disarm" -> async_disarm
                  [] name = "async_arm_night" -> async_arm_night,
     client_calls |-> <<>>]

LifeCommand(name) ==
    /\ life.shutdown = None
    /\ life' = [life EXCEPT !.command = Some(dispatch_command(name))]
    /\ UNCHANGED <<sia_receiver, jeedom_mqtt_handler, mqtt_publisher,
                   tracked_entity_ids, watchers, fnVars, coordVars, siaVars, hostVars>>

\* The stop that can raise: it calls into the event loop or the host.
CanRaise(component) ==
    CASE component = "sia_receiver" ->
            sia_receiver # None /\ sia_receiver[1].server
      [] component = "jeedom_mqtt_handler" ->
            jeedom_mqtt_handler # None /\ jeedom_mqtt_handler[1].subscribed
      [] component = "mqtt_publisher" ->
            mqtt_publisher # None /\ mqtt_publisher[1].unsubscribe_callbacks # <<>>

StopFailures ==
    {"none", "sia_receiver", "jeedom_mqtt_handler", "mqtt_publisher"}

\* async_shutdown, called by async_unload_entry; fails names the component
\* whose stop raises, if any.
AsyncShutdown(fails) ==
    /\ life.pubsetup = "done"
    /\ life.shutdown = None
    /\ fails # "none" => CanRaise(fails)
    /\ LET receiver_called == sia_receiver # None
           receiver_raised == fails = "sia_receiver"
           bridge_called == ~receiver_raised /\ jeedom_mqtt_handler # None
           bridge_raised == fails = "jeedom_mqtt_handler"
           publisher_called ==
               ~receiver_raised /\ ~bridge_raised /\ mqtt_publisher # None
           publisher_raised == fails = "mqtt_publisher"
       IN  /\ sia_receiver' =
                 IF receiver_called /\ ~receiver_raised
                 THEN Some(SiaReceiver(FALSE)) ELSE sia_receiver
           /\ jeedom_mqtt_handler' =
                 IF bridge_called /\ ~bridge_raised
                 THEN Some(JeedomMqttHandler(FALSE)) ELSE jeedom_mqtt_handler
           /\ mqtt_publisher' =
                 IF publisher_called /\ ~publisher_raised
                 THEN Some(AjaxMqttPublisher) ELSE mqtt_publisher
           /\ watchers' =
                 IF publisher_called /\ ~publisher_raised
                 THEN unsubscribe_all(watchers,
                                      mqtt_publisher[1].unsubscribe_callbacks)
                 ELSE watchers
           /\ life' = [life EXCEPT !.shutdown =
                 Some([stop_calls |->
                          (IF receiver_called THEN <<"sia_receiver">> ELSE <<>>)
                          \o (IF bridge_called
                              THEN <<"jeedom_mqtt_handler">> ELSE <<>>)
                          \o (IF publisher_called
                              THEN <<"mqtt_publisher">> ELSE <<>>),
                       raised |-> fails # "none"])]
    /\ UNCHANGED <<tracked_entity_ids, fnVars, coordVars, siaVars, hostVars>>

(***************************************************************************)
(* coordinator.py: async_setup.  It runs from one await to the next:        *)
(* SetupBegin up to the await of the MQTT bridge's start (or to the end     *)
(* when the bridge is disabled).                                           *)
(***************************************************************************)
\* lines 97-108 with the identifier's default in place of the configured one
create_default_hub_named_ajax_hub(d, hub_id) ==
    IF d.hub = None
    THEN [d EXCEPT !.hub = Some(AjaxHub("ajax_hub", "Hub 2", "ajax_hub", DISARMED))]
    ELSE d

\* lines 97-108: the default hub
create_default_hub(d, hub_id) ==
    IF d.hub = None
    THEN [d EXCEPT !.hub = Some(AjaxHub(hub_id, "Hub 2", hub_id, DISARMED))]
    ELSE d

\* What SiaReceiver.start() may do when async_setup awaits it.
SiaStartOutcomes == {"started", "returned_false", "raised"}

\* the flag is never set
connected_never_set(d) == d

\* lines 85 and 142: self.data.connected = True
set_connected(d) == [d EXCEPT !.connected = TRUE]

\* lines 97-121: no await is left; the hub is created and True returned
SetupEnd(d, sia_ok, jeedom_mqtt_ok) ==
    /\ data' = create_default_hub(d, ConfHubId)
    /\ setup' = [pc |-> "done", sia_ok |-> sia_ok,
                 jeedom_mqtt_ok |-> jeedom_mqtt_ok, result |-> Some(TRUE)]

\* lines 72-95: up to the first await of JeedomMqttHandler.async_start
SetupBegin(outcome) ==
    /\ setup.pc = "init"
    /\ IF cfg.use_sia THEN outcome \in SiaStartOutcomes ELSE outcome = "disabled"
    /\ running' = (outcome = "started")
    /\ LET sia_ok == outcome = "started"
           d1 == IF sia_ok THEN set_connected(data) ELSE data
       IN  IF cfg.use_jeedom_mqtt
           THEN /\ setup' = [setup EXCEPT !.pc = "jeedom_wait", !.sia_ok = sia_ok]
                /\ data' = d1
           ELSE SetupEnd(d1, sia_ok, FALSE)
    /\ op' = Op("async_setup", None, None)
    /\ UNCHANGED <<cfg, listener_raises, mqtt, nin, fnVars, siaVars, hostVars, lifeVars>>

(***************************************************************************)
(* sia/receiver.py: the connections                                        *)
(***************************************************************************)
\* The server's factory creates the protocol; connection_made
ConnectionMade(c) ==
    /\ running
    /\ transport[c] = "new"
    /\ transport' = [transport EXCEPT ![c] = "open"]
    /\ UNCHANGED <<buffer, carried, wire, pos, nmsg, log, coordVars, fnVars, lifeVars, hostVars>>

\* connection_lost
ConnectionLost(c) ==
    /\ transport[c] = "open"
    /\ transport' = [transport EXCEPT ![c] = "lost"]
    /\ UNCHANGED <<buffer, carried, wire, pos, nmsg, log, coordVars, fnVars, lifeVars, hostVars>>

\* data_received with the next k bytes of the connection
DataReceived(c, k) ==
    /\ transport[c] = "open"
    /\ k \in 1..(Len(wire[c]) - pos[c])
    /\ LET chunk == SubSeq(wire[c], pos[c] + 1, pos[c] + k)
           st == drain([buffer |-> buffer_append(buffer[c], chunk),
                        log |-> log[c], n |-> nmsg[c],
                        has_transport |-> TRUE, data |-> data],
                       ConfSiaAccount, listener_raises)
       IN  /\ buffer' = [buffer EXCEPT ![c] = st.buffer]
           /\ log' = [log EXCEPT ![c] = st.log]
           /\ nmsg' = [nmsg EXCEPT ![c] = st.n]
           /\ data' = st.data
    /\ carried' = [carried EXCEPT ![c] = carried[c] \/ buffer[c] # <<>>]
    /\ pos' = [pos EXCEPT ![c] = pos[c] + k]
    /\ UNCHANGED <<transport, wire, cfg, setup, running, listener_raises,
                   mqtt, op, nin, fnVars, lifeVars, hostVars>>

(***************************************************************************)
(* coordinator.py: async_setup with the MQTT bridge, from await to await    *)
(***************************************************************************)
\* jeedom_mqtt_handler.py async_start up to its second subscription: the
\* client is not available, or the first subscription raises, or it is made
JeedomWaitOutcomes == {"unavailable", "failed", "subscribed"}

SetupJeedomWaited(outcome) ==
    /\ setup.pc = "jeedom_wait"
    /\ IF outcome = "subscribed"
       THEN /\ mqtt' = [mqtt EXCEPT !.subscribed = TRUE]
            /\ setup' = [setup EXCEPT !.pc = "jeedom_subscribing"]
            /\ data' = data
       ELSE /\ mqtt' = mqtt
            /\ SetupEnd(data, setup.sia_ok, FALSE)
    /\ op' = Op("async_setup", None, None)
    /\ UNCHANGED <<cfg, running, listener_raises, nin, fnVars, siaVars, hostVars, lifeVars>>

\* the later subscriptions: one raises (the first stays in place and
\* async_start returns False), or all are made
JeedomSubscribeOutcomes == {"failed", "started"}

SetupJeedomSubscribed(outcome) ==
    /\ setup.pc = "jeedom_subscribing"
    /\ IF outcome = "started"
       THEN /\ setup' = [setup EXCEPT !.pc = "jeedom_sleep"]
            /\ data' = data
       ELSE SetupEnd(data, setup.sia_ok, FALSE)
    /\ op' = Op("async_setup", None, None)
    /\ UNCHANGED <<cfg, running, listener_raises, mqtt, nin, fnVars, siaVars, hostVars, lifeVars>>

\* _request_initial_state has slept; async_start returns True, and
\* _setup_jeedom_mqtt sets connected
SetupJeedomStarted ==
    /\ setup.pc = "jeedom_sleep"
    /\ SetupEnd(set_connected(data), setup.sia_ok, TRUE)
    /\ op' = Op("async_setup", None, None)
    /\ UNCHANGED <<cfg, running, listener_raises, mqtt, nin, fnVars, siaVars, hostVars, lifeVars>>

(***************************************************************************)
(* The coordinator's inputs                                                *)
(***************************************************************************)
\* The events the receiver hands over, all of the configured account.
SiaEventCatalogue ==
    { SiaEvent("AAA", "CL", None), SiaEvent("AAA", "OP", None),
      SiaEvent("AAA", "NL", None), SiaEvent("AAA", "BA", Some(1)),
      SiaEvent("AAA", "ZO", Some(1)), SiaEvent("AAA", "ZC", Some(1)),
      SiaEvent("AAA", "TA", Some(2)), SiaEvent("AAA", "ZO", Some(0)),
      SiaEvent("AAA", "BR", Some(1)) }

\* The payloads the bridge publishes.
MqttCatalogue ==
    { MqttMsg("jeedom/cmd/event/91", "[Aucun][Hub][Batterie]", "Batterie", "50"),
      MqttMsg("jeedom/cmd/event/92", "[Aucun][Hub][Armé]", "Armé", "1"),
      MqttMsg("jeedom/cmd/event/93", "[Aucun][Porta][Ouvert]", "Ouvert", "1"),
      MqttMsg("jeedom/cmd/event/94", "[Aucun][Porta][Mouvement]", "Mouvement", "1"),
      MqttMsg("jeedom/cmd/event/95", "[Aucun][Porta][Désarmé]", "Désarmé", "1"),
      MqttMsg("jeedom/cmd/event/96", "[Aucun][Garage][Sabotage]", "Sabotage", "1"),
      MqttMsg("jeedom/cmd/event/97", "[Aucun][Garage][Ouvert]", "Ouvert", "0"),
      MqttMsg("jeedom/cmd/event/98", "[Aucun][Garage][Mode nuit]", "Mode nuit", "1"),
      MqttMsg("jeedom/cmd/event/99", "[Aucun][Totale][Ouvert]", "Ouvert", "1") }

\* datetime.now() of the event's construction: the events made so far
Stamped(event) == [event EXCEPT !.timestamp = nin.sia + 1]

\* SiaReceiver._handle_event calls _handle_sia_event
SiaEventReceived(event) ==
    /\ running
    /\ nin.sia + nin.mqtt < MaxInputs
    /\ data' = handle_sia_event(data, Stamped(event))
    /\ op' = Op("_handle_sia_event", Some(Stamped(event)), None)
    /\ nin' = [nin EXCEPT !.sia = @ + 1]
    /\ UNCHANGED <<cfg, setup, running, listener_raises, mqtt, fnVars, siaVars, hostVars, lifeVars>>

\* the broker delivers a message to JeedomMqttHandler._handle_message
\* the registry, the aggregate and the outcome after _handle_message
MqttMessageHandled(msg, r) ==
    /\ mqtt' = [mqtt EXCEPT !.devices = r.devices]
    /\ data' = r.data
    /\ op' = Op("_handle_message", Some(msg), Some(r.notified))

MqttMessage(msg) ==
    /\ mqtt.subscribed
    /\ nin.sia + nin.mqtt < MaxInputs
    /\ MqttMessageHandled(msg, handle_mqtt_message(mqtt.devices, data, msg))
    /\ nin' = [nin EXCEPT !.mqtt = @ + 1]
    /\ UNCHANGED <<cfg, setup, running, listener_raises, fnVars, siaVars, hostVars, lifeVars>>

\* AjaxDataCoordinator.async_arm / async_disarm / async_arm_night
CoordinatorCommand(name) ==
    /\ op' = Op(name, None,
                Some(CASE name = "async_arm" -> async_arm
                       [] name = "async_disarm" -> async_disarm
                       [] name = "async_arm_night" -> async_arm_night))
    /\ UNCHANGED <<cfg, setup, data, running, listener_raises, mqtt, nin,
                   fnVars, siaVars, hostVars, lifeVars>>

\* alarm_control_panel.py, AjaxAlarmPanel.alarm_state: state_map, from the
\* hub's AjaxAlarmState to the AlarmControlPanelState shown
state_map ==
    DISARMED :> "disarmed" @@ ARMED_AWAY :> "armed_away" @@
    ARMED_NIGHT :> "armed_night" @@ ARMING :> "arming" @@
    PENDING :> "pending" @@ TRIGGERED :> "triggered"

\* AjaxAlarmPanel.alarm_state: state_map.get(hub.state, DISARMED), None
\* without a hub
alarm_state(hub) ==
    IF hub = None THEN None
    ELSE IF hub[1].state \in DOMAIN state_map THEN Some(state_map[hub[1].state])
    ELSE Some("disarmed")

\* The attributes of AjaxDataCoordinator that the integration's services
\* look up: its methods and properties (coordinator.py).
CoordinatorAttributes ==
    {"async_setup", "jeedom_mqtt_handler", "async_setup_mqtt_publisher",
     "register_entity_for_mqtt", "async_publish_alarm_event", "async_shutdown",
     "async_arm", "async_disarm", "async_arm_night"}

\* JeedomMqttHandler.async_request_refresh(): the topics published to, one
\* jeedom/cmd/get/{topic_id} per known command of every known device
async_request_refresh(devices) ==
    {"jeedom/cmd/get/" \o devices[d].jeedom_commands[c] :
        <<d, c>> \in {<<d, c>> \in (DOMAIN devices) \X (DOMAIN COMMAND_MAPPING) :
                         c \in DOMAIN devices[d].jeedom_commands}}

\* handle_refresh_jeedom for this coordinator: the topics published to
handle_refresh_jeedom(devices) ==
    IF "async_request_jeedom_refresh" \in CoordinatorAttributes
    THEN async_request_refresh(devices)
    ELSE {}

\* The service refresh_jeedom, registered at the end of async_setup_entry
HandleRefreshJeedom ==
    /\ setup.result # None
    /\ op' = Op("refresh_jeedom", None, Some(handle_refresh_jeedom(mqtt.devices)))
    /\ UNCHANGED <<cfg, setup, data, running, listener_raises, mqtt, nin,
                   fnVars, siaVars, hostVars, lifeVars>>

\* The panel entity exists once async_setup_entry has found the hub; its
\* _hub is the coordinator's hub object.
PanelExists == setup.result # None /\ data.hub # None

AsyncAlarmDisarm ==
    /\ PanelExists
    /\ data' = async_alarm_disarm(data)
    /\ op' = Op("async_alarm_disarm", None, Some(async_disarm))
    /\ UNCHANGED <<cfg, setup, running, listener_raises, mqtt, nin,
                   fnVars, siaVars, hostVars, lifeVars>>

AsyncAlarmArmAway ==
    /\ PanelExists
    /\ data' = async_alarm_arm_away(data)
    /\ op' = Op("async_alarm_arm_away", None, Some(async_arm))
    /\ UNCHANGED <<cfg, setup, running, listener_raises, mqtt, nin,
                   fnVars, siaVars, hostVars, lifeVars>>

AsyncAlarmArmNight ==
    /\ PanelExists
    /\ data' = async_alarm_arm_night(data)
    /\ op' = Op("async_alarm_arm_night", None, Some(async_arm_night))
    /\ UNCHANGED <<cfg, setup, running, listener_raises, mqtt, nin,
                   fnVars, siaVars, hostVars, lifeVars>>

CoordinatorCommands == {"async_arm", "async_disarm", "async_arm_night"}
PanelCommands ==
    {"async_alarm_disarm", "async_alarm_arm_away", "async_alarm_arm_night"}

(***************************************************************************)
(* SpecCoord: the coordinator under every configuration of its transports,  *)
(* every outcome of their start, and every interleaving of at most          *)
(* MaxInputs receiver events and bridge messages with the commands.         *)
(***************************************************************************)
CoordInit ==
    /\ FnIdle
    /\ cfg \in {ConfigEntry(s, j, h, None) :
                   s \in BOOLEAN, j \in BOOLEAN, h \in {None, Some("hub1")}}
    /\ CoordConstructed
    /\ listener_raises = FALSE
    /\ SiaIdle
    /\ wire = [c \in Conns |-> <<>>]
    /\ LifeIdle
    /\ HostIdle

CoordNext ==
    \/ \E o \in SiaStartOutcomes \cup {"disabled"} : SetupBegin(o)
    \/ \E o \in JeedomWaitOutcomes : SetupJeedomWaited(o)
    \/ \E o \in JeedomSubscribeOutcomes : SetupJeedomSubscribed(o)
    \/ SetupJeedomStarted
    \/ \E e \in SiaEventCatalogue : SiaEventReceived(e)
    \/ \E m \in MqttCatalogue : MqttMessage(m)
    \/ \E n \in CoordinatorCommands : CoordinatorCommand(n)
    \/ AsyncAlarmDisarm
    \/ AsyncAlarmArmAway
    \/ AsyncAlarmArmNight
    \/ HandleRefreshJeedom

SpecCoord == CoordInit /\ [][CoordNext]_vars

(***************************************************************************)
(* SpecSia: the receiver alone is configured; its peers send every stream   *)
(* of at most MaxMsgs catalogue messages, cut into chunks in every way.     *)
(***************************************************************************)
SiaInit ==
    /\ FnIdle
    /\ cfg \in {ConfigEntry(TRUE, FALSE, Some("hub1"), a) : a \in {None, Some("")}}
    /\ CoordConstructed
    /\ listener_raises \in BOOLEAN
    /\ SiaIdle
    /\ wire \in Wires
    /\ LifeIdle
    /\ HostIdle

SiaNext ==
    \/ \E o \in SiaStartOutcomes : SetupBegin(o)
    \/ \E c \in Conns : ConnectionMade(c)
    \/ \E c \in Conns : ConnectionLost(c)
    \/ \E c \in Conns, k \in 1..MaxChunk : DataReceived(c, k)

SpecSia == SiaInit /\ [][SiaNext]_vars

(***************************************************************************)
(* SpecLife: the entry after async_setup, under every publisher setting,    *)
(* every outcome of the receiver's and the bridge's start, and every HTTP   *)
(* transport the entry may configure.                                      *)
(***************************************************************************)
LifeInit ==
    /\ FnIdle
    /\ cfg = ConfigEntry(FALSE, FALSE, None, None)
    /\ CoordConstructed
    /\ listener_raises = FALSE
    /\ SiaIdle
    /\ wire = [c \in Conns |-> <<>>]
    /\ sia_receiver \in {None, Some(SiaReceiver(FALSE)), Some(SiaReceiver(TRUE))}
    /\ jeedom_mqtt_handler \in
          {None, Some(JeedomMqttHandler(FALSE)), Some(JeedomMqttHandler(TRUE))}
    /\ mqtt_publisher = None
    /\ tracked_entity_ids = <<>>
    /\ watchers = [e \in Entities |-> 0]
    /\ life \in {Life(p, h) : p \in PublishSettings, h \in HttpTransports}
    /\ HostIdle

LifeNext ==
    \/ \E e \in Entities : RegisterEntity(e)
    \/ PublisherSetupBegin
    \/ PublisherSetupResume
    \/ \E name \in CoordinatorCommands : LifeCommand(name)
    \/ \E fails \in StopFailures : AsyncShutdown(fails)

SpecLife == LifeInit /\ [][LifeNext]_vars

(***************************************************************************)
(* SpecPlatform: the binary_sensor platform of an entry whose coordinator   *)
(* was set up with the receiver and the bridge running: its                 *)
(* async_setup_entry and every interleaving of at most MaxInputs receiver   *)
(* events and bridge messages, each followed by the coordinator's           *)
(* listeners.                                                              *)
(***************************************************************************)
\* binary_sensor.py lines 52-66: the entities made for one device
entities_for(device) ==
    LET id == device.device_id
        tamper == IF device.tamper THEN {<<id, "tamper">>} ELSE {}
    IN  CASE device.cls = "AjaxDoorSensor" -> {<<id, "door">>} \cup tamper
          [] device.cls = "AjaxMotionSensor" -> {<<id, "motion">>} \cup tamper
          [] device.cls = "AjaxLeakSensor" -> {<<id, "leak">>}
          [] device.cls = "AjaxFireSensor" -> {<<id, "smoke">>, <<id, "heat">>}
          [] device.cls = "AjaxGlassSensor" -> {<<id, "glass">>}
          [] OTHER -> {}

\* add_entities_for_devices: a device whose identifier is in added_devices
\* is skipped, every other one is recorded there and given its entities
add_entities_for_devices(platform, devices) ==
    LET new == {k \in DOMAIN devices :
                   devices[k].device_id \notin platform.added_devices}
    IN  [platform EXCEPT
            !.added_devices = @ \cup {devices[k].device_id : k \in new},
            !.entities = @ \cup UNION {entities_for(devices[k]) : k \in new}]

\* lines 73-75: the hub's connection sensor
add_hub_connection_sensor(platform, hub) ==
    IF hub # None
    THEN [platform EXCEPT !.entities = @ \cup {<<hub[1].device_id, "connection">>}]
    ELSE platform

\* async_check_new_devices, the listener async_setup_entry registers; it
\* exists once the platform is loaded
async_check_new_devices(platform, devices) ==
    IF platform.loaded THEN add_entities_for_devices(platform, devices)
    ELSE platform

\* binary_sensor.async_setup_entry, which __init__.py line 64 awaits
BinarySensorSetupEntry ==
    /\ ~binary_sensor.loaded
    /\ binary_sensor' =
          [add_hub_connection_sensor(
               add_entities_for_devices(binary_sensor, data.devices), data.hub)
           EXCEPT !.loaded = TRUE]
    /\ UNCHANGED <<coordVars, receiver, fnVars, siaVars, lifeVars>>

\* _handle_sia_event, whose async_set_updated_data (line 504) calls the
\* listeners
PlatformSiaEvent(event) ==
    /\ running
    /\ nin.sia + nin.mqtt < MaxInputs
    /\ data' = handle_sia_event(data, Stamped(event))
    /\ op' = Op("_handle_sia_event", Some(Stamped(event)), None)
    /\ nin' = [nin EXCEPT !.sia = @ + 1]
    /\ binary_sensor' = async_check_new_devices(binary_sensor, data'.devices)
    /\ UNCHANGED <<cfg, setup, running, listener_raises, mqtt, receiver,
                   fnVars, siaVars, lifeVars>>

\* the callback left by an exception of _create_device_from_jeedom, before
\* async_set_updated_data (coordinator.py line 204)
update_raises(d, processed) ==
    LET jeedom_device == processed.devices[processed.result[1].device_id] IN
    /\ \/ jeedom_device.device_id \notin DOMAIN d.devices
       \/ should_recreate(d.devices, jeedom_device)
    /\ create_device_from_jeedom(d, jeedom_device, hub_id_or_default(d)).raised

\* whether _handle_message reached async_set_updated_data
listeners_called(d, processed) ==
    callbacks_notified(processed) /\ ~update_raises(d, processed)

\* _handle_message; _handle_jeedom_sensor_update ends with
\* async_set_updated_data (line 204), which calls the listeners
PlatformMqttMessage(msg) ==
    /\ mqtt.subscribed
    /\ nin.sia + nin.mqtt < MaxInputs
    /\ MqttMessageHandled(msg, handle_mqtt_message(mqtt.devices, data, msg))
    /\ nin' = [nin EXCEPT !.mqtt = @ + 1]
    /\ binary_sensor' =
          IF listeners_called(data, process_message(mqtt.devices, msg))
          THEN async_check_new_devices(binary_sensor, data'.devices)
          ELSE binary_sensor
    /\ UNCHANGED <<cfg, setup, running, listener_raises, receiver,
                   fnVars, siaVars, lifeVars>>

\* async_setup has returned True with both transports started
PlatformInit ==
    /\ FnIdle
    /\ cfg \in {ConfigEntry(TRUE, TRUE, h, None) : h \in {None, Some("hub1")}}
    /\ setup = [pc |-> "done", sia_ok |-> TRUE, jeedom_mqtt_ok |-> TRUE,
                result |-> Some(TRUE)]
    /\ data = create_default_hub(set_connected(AjaxCoordinator), ConfHubId)
    /\ running = TRUE
    /\ mqtt = [subscribed |-> TRUE, devices |-> <<>>]
    /\ op = Op("async_setup", None, None)
    /\ nin = [sia |-> 0, mqtt |-> 0]
    /\ listener_raises = FALSE
    /\ SiaIdle
    /\ wire = [c \in Conns |-> <<>>]
    /\ LifeIdle
    /\ HostIdle

PlatformNext ==
    \/ BinarySensorSetupEntry
    \/ \E event \in SiaEventCatalogue : PlatformSiaEvent(event)
    \/ \E msg \in MqttCatalogue : PlatformMqttMessage(msg)

SpecPlatform == PlatformInit /\ [][PlatformNext]_vars

\* async_forward_entry_setups is awaited by the entry's setup: the platform
\* is loaded in the end
SpecPlatformFair == SpecPlatform /\ WF_vars(BinarySensorSetupEntry)

(***************************************************************************)

(* SpecReceiver: one SiaReceiver under at most MaxCalls calls of start()    *)
(* and stop(), each running from await to await, in every interleaving and  *)
(* with every outcome of the bind.                                          *)
(***************************************************************************)
\* a call of start() or stop(): where it stands and what it returned
Call(kind, pc, result) == [kind |-> kind, pc |-> pc, result |-> result]

\* the receiver holds a server that listens on the port
Listening(r) == r.server # None /\ r.server[1] \in r.listening

\* SiaReceiver.is_running
is_running(r) == r.running

\* start(), lines 272-273 and up to the await of loop.create_server
ReceiverStart ==
    /\ Len(receiver.calls) < MaxCalls
    /\ receiver' =
          [receiver EXCEPT !.calls =
              Append(@, IF receiver.running
                        THEN Call("start", "done", Some(TRUE))
                        ELSE Call("start", "create_server", None))]
    /\ UNCHANGED <<binary_sensor, coordVars, fnVars, siaVars, lifeVars>>

\* What loop.create_server may do: bind the port, or raise OSError.  The
\* port can be bound while none of the receiver's servers listens on it.
BindOutcomes == {"bound", "OSError"}

\* start(), lines 277-288: create_server returned or raised
ReceiverStartResume(i, outcome) ==
    /\ i \in 1..Len(receiver.calls)
    /\ receiver.calls[i].pc = "create_server"
    /\ outcome = "bound" => receiver.listening = {}
    /\ receiver' =
          IF outcome = "bound"
          THEN [receiver EXCEPT
                   !.server = Some(receiver.nservers + 1),
                   !.listening = @ \cup {receiver.nservers + 1},
                   !.nservers = @ + 1,
                   !.running = TRUE,
                   !.calls[i] = Call("start", "done", Some(TRUE))]
          ELSE [receiver EXCEPT
                   !.calls[i] = Call("start", "done", Some(FALSE))]
    /\ UNCHANGED <<binary_sensor, coordVars, fnVars, siaVars, lifeVars>>

\* stop(), lines 292-296, from "self._server = None" on
stop_finished(r) == [r EXCEPT !.server = None, !.running = FALSE]

\* stop(), lines 292-294: the server is closed; wait_closed() returns at
\* once when no connection is open and suspends the call otherwise
ReceiverStop(suspends) ==
    /\ Len(receiver.calls) < MaxCalls
    /\ receiver' =
          IF receiver.server = None
          THEN [stop_finished(receiver) EXCEPT
                   !.calls = Append(@, Call("stop", "done", None))]
          ELSE IF suspends
          THEN [receiver EXCEPT
                   !.listening = @ \ {receiver.server[1]},
                   !.calls = Append(@, Call("stop", "wait_closed", None))]
          ELSE [stop_finished(receiver) EXCEPT
                   !.listening = @ \ {receiver.server[1]},
                   !.calls = Append(@, Call("stop", "done", None))]
    /\ UNCHANGED <<binary_sensor, coordVars, fnVars, siaVars, lifeVars>>

\* stop(), lines 295-297: wait_closed() returned
ReceiverStopResume(i) ==
    /\ i \in 1..Len(receiver.calls)
    /\ receiver.calls[i].pc = "wait_closed"
    /\ receiver' = [stop_finished(receiver) EXCEPT
                       !.calls[i] = Call("stop", "done", None)]
    /\ UNCHANGED <<binary_sensor, coordVars, fnVars, siaVars, lifeVars>>

ReceiverInit ==
    /\ FnIdle
    /\ cfg = ConfigEntry(TRUE, FALSE, None, None)
    /\ CoordConstructed
    /\ listener_raises = FALSE
    /\ SiaIdle
    /\ wire = [c \in Conns |-> <<>>]
    /\ LifeIdle
    /\ HostIdle

ReceiverNext ==
    \/ ReceiverStart
    \/ \E i \in 1..MaxCalls, outcome \in BindOutcomes :
           ReceiverStartResume(i, outcome)
    \/ \E suspends \in BOOLEAN : ReceiverStop(suspends)
    \/ \E i \in 1..MaxCalls : ReceiverStopResume(i)

SpecReceiver == ReceiverInit /\ [][ReceiverNext]_vars

(***************************************************************************)

(* SpecFn: the pure functions, each applied to every input of its bounded   *)
(* domain.                                                                 *)
(***************************************************************************)

\* The rest of the system is not running while a function is evaluated.
SystemIdle ==
    /\ cfg = ConfigEntry(FALSE, FALSE, None, None)
    /\ CoordConstructed
    /\ listener_raises = FALSE
    /\ SiaIdle
    /\ wire = [c \in Conns |-> <<>>]
    /\ LifeIdle
    /\ HostIdle

AlarmStateInputs ==
    {SiaEvent("AAA", c, z) : c \in TwoLetterCodes, z \in Zones}

\* The bridge's devices a command is applied to: a door sensor just
\* discovered, one reported open with battery 87, one reported closed.
CommandDevices ==
    LET fresh == JeedomDevice("ajax_porta", "Porta", "Aucun", "door") IN
    { fresh,
      [fresh EXCEPT !.is_open = Some(TRUE), !.battery = Some(87)],
      [fresh EXCEPT !.is_open = Some(FALSE)] }

CommandValues ==
    {"0", "1", "87", "87.5", "CHARGED", "charged", "Charged", "x", "", "inf"}

UpdateFromCommandInputs ==
    {[device |-> d, command_name |-> c, value |-> v, topic_id |-> "91"] :
        d \in CommandDevices, c \in DOMAIN COMMAND_MAPPING \cup {"Foo"},
        v \in CommandValues}

\* Human names [Zone][Device][Command], kept with their parts.
HumanName(zone, device, command) ==
    [zone |-> zone, device |-> device, command |-> command,
     humanName |-> "[" \o zone \o "][" \o device \o "][" \o command \o "]"]

SentinelZones == {"Nessuno", "Aucun", "None"}

HumanNameInputs ==
    {HumanName(z, d, c) :
        z \in {"Zone1", "Zone2", "Zone 1", "Zone-1", "zone1", "Aucun", "Nessuno"},
        d \in {"Sensor A", "Porta"},
        c \in {"Ouvert", "Fermé", "Batterie"}}

\* State-change events: the entity identifier with the parts it was made
\* of, and the new state.
EntityIds ==
    {[parts |-> <<d, o>>, entity_id |-> d \o "." \o o] :
        d \in {"binary_sensor", "sensor", "alarm_control_panel"},
        o \in {"front_door", "hub1_battery"}}
    \cup {[parts |-> <<e>>, entity_id |-> e] : e \in {"front_door", ""}}
    \cup {[parts |-> <<"sensor", "a", "b">>, entity_id |-> "sensor.a.b"]}

PublishStateInputs ==
    {[topic_prefix |-> p, hub_id |-> h, entity |-> e, new_state |-> n] :
        p \in {"ajax", "home/alarm"}, h \in {"hub1", "ajax_hub"},
        e \in EntityIds, n \in {None, Some("on"), Some("unavailable")}}

\* A submission of a wizard step: the mode, the form's content (None when
\* the step is first shown; target is the mode's defining parameter: port,
\* user name or topic), how the probe ends, and the unique ids configured.
FlowModes == {"sia", "cloud", "jeedom", "mqtt"}

FlowInputs ==
    {[mode |-> m, user_input |-> u, outcome |-> o, configured |-> c] :
        m \in FlowModes,
        u \in {None} \cup {Some([target |-> t, try_anyway |-> a]) :
                              t \in {"a", "b"}, a \in BOOLEAN},
        o \in ProbeOutcomes,
        c \in {{}, {"ajax_sia_a", "ajax_cloud_a", "ajax_jeedom_a", "ajax_mqtt_a"}}}

\* What the MQTT step's form is submitted with, and whether const.py has
\* the names coordinator.py imports.
MqttStepInputs ==
    {[user_input |-> u, import_ok |-> i] :
        u \in {[hub_id |-> h, mqtt_prefix |-> p, use_sia |-> s] :
                  h \in {"ajax_hub", "hub1"},
                  p \in {"jeedom/cmd", "home/ajax"}, s \in BOOLEAN}
              \cup {[hub_id |-> "hub1"]},
        i \in BOOLEAN}

\* The answers to the three requests of a cloud probe and the hubs listed.
CloudProbeInputs ==
    {[login |-> l, csa |-> c, hubs_data |-> h, nhubs |-> n] :
        l \in HttpOutcomes, c \in HttpOutcomes, h \in HttpOutcomes, n \in 0..1}

\* A login of a new client, or of one logged in before (refresh_token falls
\* back to authenticate, lines 286-307), with every answer to /login.
ProxyLoginInputs ==
    {[client |-> c, outcome |-> o] :
        c \in {NewProxy, LoggedInProxy}, o \in LoginOutcomes}

\* Bridge messages with values that are and are not numbers, for a registry
\* that is empty or holds the device "Garage" with its type still unknown.
BridgeRegistries ==
    {<<>>,
     SetItem(<<>>, "ajax_garage", JeedomDevice("ajax_garage", "Garage", "Aucun", "unknown"))}

BridgeMessages ==
    {MqttMsg("jeedom/cmd/event/97", "[Aucun][Garage][" \o c \o "]", c, v) :
        c \in {"Ouvert", "Batterie", "Sabotage"}, v \in {"1", "x", "inf"}}

HandleMessageInputs ==
    {[devices |-> r, msg |-> msg] : r \in BridgeRegistries, msg \in BridgeMessages}

\* Every keyword of DEVICE_TYPE_PATTERNS as a device name, and names as an
\* installation gives them.
AllPatterns ==
    UNION {DEVICE_TYPE_PATTERNS[i].patterns : i \in 1..Len(DEVICE_TYPE_PATTERNS)}

DetectNames ==
    AllPatterns \cup {"Sirena Giardino", "HomeSiren", "Garage", "Tastiera Ingresso"}

FnCalls ==
    {[fn |-> "sia_event_to_alarm_state", arg |-> e] : e \in AlarmStateInputs}
    \cup {[fn |-> "update_from_command", arg |-> a] : a \in UpdateFromCommandInputs}
    \cup {[fn |-> "resolve_device_id", arg |-> h] : h \in HumanNameInputs}
    \cup {[fn |-> "sia_event_to_sensor_state", arg |-> e] : e \in AlarmStateInputs}
    \cup {[fn |-> "_async_publish_state", arg |-> a] : a \in PublishStateInputs}
    \cup {[fn |-> "async_step", arg |-> a] : a \in FlowInputs}
    \cup {[fn |-> "cloud_probe", arg |-> a] : a \in CloudProbeInputs}
    \cup {[fn |-> "_detect_device_type", arg |-> [device_name |-> a]] : a \in DetectNames}
    \cup {[fn |-> "_handle_message", arg |-> a] : a \in HandleMessageInputs}
    \cup {[fn |-> "proxy_authenticate", arg |-> a] : a \in ProxyLoginInputs}
    \cup {[fn |-> "setup_after_mqtt_step", arg |-> a] : a \in MqttStepInputs}

FnInit ==
    /\ fnCall \in {Some(c) : c \in FnCalls}
    /\ fnRes = None
    /\ SystemIdle

CallAlarmState ==
    /\ fnCall # None
    /\ fnCall[1].fn = "sia_event_to_alarm_state"
    /\ fnRes = None
    /\ fnRes' = Some(sia_event_to_alarm_state(fnCall[1].arg))
    /\ UNCHANGED <<fnCall, coordVars, siaVars, hostVars, lifeVars>>

\* JeedomDevice.update_from_command
CallUpdateFromCommand ==
    /\ fnCall # None
    /\ fnCall[1].fn = "update_from_command"
    /\ fnRes = None
    /\ LET a == fnCall[1].arg IN
         fnRes' = Some(update_from_command(a.device, a.command_name, a.value,
                                           a.topic_id))
    /\ UNCHANGED <<fnCall, coordVars, siaVars, hostVars, lifeVars>>

\* _parse_human_name and _get_device_id as _process_message calls them
CallResolveDeviceId ==
    /\ fnCall # None
    /\ fnCall[1].fn = "resolve_device_id"
    /\ fnRes = None
    /\ fnRes' = Some(resolve_device_id(fnCall[1].arg.humanName))
    /\ UNCHANGED <<fnCall, coordVars, siaVars, hostVars, lifeVars>>

CallSensorState ==
    /\ fnCall # None
    /\ fnCall[1].fn = "sia_event_to_sensor_state"
    /\ fnRes = None
    /\ fnRes' = Some(sia_event_to_sensor_state(fnCall[1].arg))
    /\ UNCHANGED <<fnCall, coordVars, siaVars, hostVars, lifeVars>>

\* AjaxMqttPublisher._async_publish_state
CallPublishState ==
    /\ fnCall # None
    /\ fnCall[1].fn = "_async_publish_state"
    /\ fnRes = None
    /\ LET a == fnCall[1].arg IN
         fnRes' = Some(async_publish_state(a.topic_prefix, a.hub_id,
                                           a.entity.entity_id, a.new_state))
    /\ UNCHANGED <<fnCall, coordVars, siaVars, hostVars, lifeVars>>

\* AjaxSystemsConfigFlow.async_step_sia / _cloud / _jeedom / _mqtt
CallFlowStep ==
    /\ fnCall # None
    /\ fnCall[1].fn = "async_step"
    /\ fnRes = None
    /\ LET a == fnCall[1].arg IN
         fnRes' = Some(async_step(a.mode, a.user_input, a.outcome, a.configured))
    /\ UNCHANGED <<fnCall, coordVars, siaVars, hostVars, lifeVars>>

\* async_step_mqtt, then async_setup_entry with the entry it created
CallSetupAfterMqttStep ==
    /\ fnCall # None
    /\ fnCall[1].fn = "setup_after_mqtt_step"
    /\ fnRes = None
    /\ fnRes' = Some(setup_after_mqtt_step(fnCall[1].arg.user_input,
                                           fnCall[1].arg.import_ok))
    /\ UNCHANGED <<fnCall, coordVars, siaVars, hostVars, lifeVars>>

\* AjaxCloudApi.authenticate and get_hubs, called by async_step_cloud
CallCloudProbe ==
    /\ fnCall # None
    /\ fnCall[1].fn = "cloud_probe"
    /\ fnRes = None
    /\ LET a == fnCall[1].arg IN
         fnRes' = Some(cloud_probe_run(a.login, a.csa, a.hubs_data, a.nhubs))
    /\ UNCHANGED <<fnCall, coordVars, siaVars, hostVars, lifeVars>>

\* JeedomProxyApi.authenticate
CallProxyAuthenticate ==
    /\ fnCall # None
    /\ fnCall[1].fn = "proxy_authenticate"
    /\ fnRes = None
    /\ fnRes' = Some(proxy_authenticate(fnCall[1].arg.client, fnCall[1].arg.outcome))
    /\ UNCHANGED <<fnCall, coordVars, siaVars, hostVars, lifeVars>>

\* JeedomMqttHandler._handle_message: the registry afterwards and whether
\* the callbacks were called
CallHandleMessage ==
    /\ fnCall # None
    /\ fnCall[1].fn = "_handle_message"
    /\ fnRes = None
    /\ LET processed == process_message(fnCall[1].arg.devices, fnCall[1].arg.msg) IN
         fnRes' = Some([devices |-> processed.devices,
                        notified |-> callbacks_notified(processed)])
    /\ UNCHANGED <<fnCall, coordVars, siaVars, hostVars, lifeVars>>

\* JeedomMqttHandler._detect_device_type
CallDetectDeviceType ==
    /\ fnCall # None
    /\ fnCall[1].fn = "_detect_device_type"
    /\ fnRes = None
    /\ fnRes' = Some([device_type |-> detect_device_type(fnCall[1].arg.device_name)])
    /\ UNCHANGED <<fnCall, coordVars, siaVars, hostVars, lifeVars>>

FnNext ==
    \/ CallDetectDeviceType
    \/ CallHandleMessage
    \/ CallProxyAuthenticate
    \/ CallCloudProbe
    \/ CallSetupAfterMqttStep
    \/ CallFlowStep
    \/ CallPublishState
    \/ CallAlarmState
    \/ CallUpdateFromCommand
    \/ CallResolveDeviceId
    \/ CallSensorState

SpecFn == FnInit /\ [][FnNext]_vars

\* The call that has returned, if any.
Returned(fn) == fnCall # None /\ fnCall[1].fn = fn /\ fnRes # None

RECURSIVE CompleteMessages(_)
CompleteMessages(text) ==
    LET i == FirstIndex(text, {"CR", "LF"}) IN
    IF i = 0 THEN <<>>
    ELSE (IF i = 1 THEN <<>> ELSE <<SubSeq(text, 1, i - 1)>>)
         \o CompleteMessages(SubSeq(text, i + 1, Len(text)))

\* What follows the last CR or LF of text.
RECURSIVE Unterminated(_)
Unterminated(text) ==
    LET i == FirstIndex(text, {"CR", "LF"}) IN
    IF i = 0 THEN text ELSE Unterminated(SubSeq(text, i + 1, Len(text)))

Received(c) == SubSeq(wire[c], 1, pos[c])
Messages(c) == CompleteMessages(Received(c))

\* A well-formed message: one bracketed event block, alone or behind the
\* "SIA-DCS" envelope (a block without account only behind the envelope).
WellFormed(m) ==
    \/ Len(m) = 1 /\ m[1].k \in {"AJAX", "STD"}
    \/ Len(m) = 2 /\ m[1].k = "HDR" /\ m[2].k \in {"AJAX", "STD", "BARE"}

HasEnvelope(m) == \E i \in 1..Len(m) : m[i].k = "HDR"
Block(m) == m[Len(m)]
ParsedAccount(m) == IF Block(m).k = "BARE" THEN m[1].account ELSE Block(m).account
ParsedEvent(m) ==
    SiaEvent(ParsedAccount(m), Block(m).code,
             IF Block(m).zone = "" THEN None ELSE Some(int(Block(m).zone)))

\* No pattern of the receiver finds anything in the message.
MatchesNothing(m) ==
    \A i \in 1..Len(m) : m[i].k \notin {"AJAX", "STD"} /\ ~IsDc09(m, i)

\* The callbacks and the acknowledgments made for message n of connection c.
Callbacks(c, n) ==
    {i \in 1..Len(log[c]) : log[c][i].op = "callback" /\ log[c][i].msg = n}
Acks(c, n) ==
    {i \in 1..Len(log[c]) : log[c][i].op = "write" /\ log[c][i].msg = n}

(***************************************************************************)
(* C4: with a non-empty configured account, no event of another account    *)
(* reaches the callback, and every well-formed message of the configured    *)
(* account is delivered (once, as the event its block describes) whichever  *)
(* pattern matched it; a well-formed message of another account is not.     *)
(***************************************************************************)
C4_AccountFilter ==
    ConfSiaAccount # "" =>
        \A c \in Conns :
            /\ \A i \in 1..Len(log[c]) :
                   log[c][i].op = "callback"
                       => log[c][i].event[1].account = ConfSiaAccount
            /\ \A n \in 1..Len(Messages(c)) :
                   LET m == Messages(c)[n] IN
                   WellFormed(m) =>
                       IF ParsedAccount(m) = ConfSiaAccount
                       THEN /\ Cardinality(Callbacks(c, n)) = 1
                            /\ \A i \in Callbacks(c, n) :
                                   log[c][i].event = Some(ParsedEvent(m))
                       ELSE Callbacks(c, n) = {}

\* Configured AAA: a BBB message was dropped and three patterns delivered.
C4_Witness ==
    /\ ConfSiaAccount = "AAA"
    /\ \E c \in Conns :
           /\ Len(Messages(c)) = 2
           /\ ParsedAccount(Messages(c)[1]) = "BBB"
           /\ WellFormed(Messages(c)[1])
           /\ Callbacks(c, 1) = {}
           /\ Block(Messages(c)[2]).k = "BARE"
           /\ ParsedAccount(Messages(c)[2]) = "AAA"
           /\ Callbacks(c, 2) # {}

(***************************************************************************)
(* C5 as stated: every message that parses under one of the patterns is     *)
(* acknowledged, also when the account filter rejects its event.            *)
(***************************************************************************)
C5_AckEveryParsed ==
    \A c \in Conns : \A n \in 1..Len(Messages(c)) :
        WellFormed(Messages(c)[n]) => Acks(c, n) # {}

(***************************************************************************)
(* C5: a message that parses is acknowledged exactly when its event passes  *)
(* the account filter; a message whose event the filter rejects is not      *)
(* acknowledged.                                                           *)
(***************************************************************************)
C5_AckOnlyAccepted ==
    \A c \in Conns : \A n \in 1..Len(Messages(c)) :
        LET m == Messages(c)[n] IN
        WellFormed(m) =>
            IF ConfSiaAccount = "" \/ ParsedAccount(m) = ConfSiaAccount
            THEN Cardinality(Acks(c, n)) = 1
            ELSE Acks(c, n) = {}

\* A parsed message of another account went by without acknowledgment, and
\* one of the configured account was acknowledged.
C5_Witness ==
    /\ ConfSiaAccount = "AAA"
    /\ \E c \in Conns :
           /\ Len(Messages(c)) = 2
           /\ Messages(c)[1] = <<HDR("3463", "AAA"), AJAX("BBB", "CL", "1")>>
           /\ Acks(c, 1) = {}
           /\ Messages(c)[2] = <<AJAX("AAA", "CL", "")>>
           /\ Acks(c, 2) # {}

(***************************************************************************)
(* C6: the acknowledgment of a message that carries the "SIA-DCS" envelope  *)
(* is "ACK"<seq>L0#[] CR LF with the envelope's sequence, whichever block   *)
(* pattern matched; only a message without envelope gets plain ACK CR LF.   *)
(***************************************************************************)
C6_AckEchoesSequence ==
    \A c \in Conns : \A i \in 1..Len(log[c]) :
        log[c][i].op = "write" =>
            LET m == Messages(c)[log[c][i].msg] IN
            IF HasEnvelope(m)
            THEN log[c][i].ack = "\"ACK\"" \o SeqSearch(m)[1] \o "L0#[]\r\n"
            ELSE log[c][i].ack = "ACK\r\n"

(***************************************************************************)
(* C7: however a connection's stream is cut into chunks, its calls          *)
(* (callbacks and acknowledgments, in order) are those of the stream        *)
(* arriving in one chunk; every call belongs to a message whose CR or LF    *)
(* has arrived; the buffer holds what follows the last terminator; and      *)
(* nothing of this depends on the other connection.                         *)
(***************************************************************************)
InOneChunk(c) ==
    drain([buffer |-> buffer_append(<<>>, Received(c)), log |-> <<>>, n |-> 0,
           has_transport |-> TRUE, data |-> AjaxCoordinator],
          ConfSiaAccount, listener_raises)

C7_ChunkingInvariant ==
    \A c \in Conns :
        /\ log[c] = InOneChunk(c).log
        /\ nmsg[c] = Len(Messages(c))
        /\ buffer[c] = Unterminated(Received(c))
        /\ \A i \in 1..Len(log[c]) : log[c][i].msg \in 1..Len(Messages(c))

\* A message arrived in several chunks, was buffered, and was delivered when
\* its terminator came, while the other connection holds a partial message.
C7_Witness ==
    \E c \in Conns, d \in Conns :
        /\ c # d
        /\ carried[c]
        /\ Len(Messages(c)) = 1
        /\ Callbacks(c, 1) # {}
        /\ buffer[c] = <<>>
        /\ buffer[d] # <<>>
        /\ Messages(d) = <<>>

(***************************************************************************)
(* C8: a message that matches no pattern, or whose handling raises, makes   *)
(* no event of its own go missing later: it yields no call at all when it   *)
(* matches nothing, and every well-formed message of the configured account *)
(* behind it on the connection is delivered; receiving data neither closes  *)
(* the connection nor stops the listener.                                   *)
(***************************************************************************)
C8_ErrorIsolation ==
    /\ [](\A c \in Conns : \A n \in 1..Len(Messages(c)) :
             LET m == Messages(c)[n] IN
             /\ MatchesNothing(m) => Callbacks(c, n) = {} /\ Acks(c, n) = {}
             /\ ( /\ n > 1
                  /\ WellFormed(m)
                  /\ ConfSiaAccount = "" \/ ParsedAccount(m) = ConfSiaAccount
                  /\ \/ MatchesNothing(Messages(c)[n - 1])
                     \/ listener_raises /\ Callbacks(c, n - 1) # {} )
                 => \E i \in Callbacks(c, n) :
                        log[c][i].event = Some(ParsedEvent(m)))
    /\ [][pos' # pos => transport' = transport /\ running' = running]_vars

\* The listener raised on the first message and the second one, received
\* in the same chunk, was delivered on a connection that is still open.
C8_Witness ==
    /\ listener_raises
    /\ running
    /\ \E c \in Conns :
           /\ transport[c] = "open"
           /\ pos[c] = Len(wire[c])
           /\ pos[c] <= MaxChunk
           /\ Len(Messages(c)) = 2
           /\ Callbacks(c, 1) # {}
           /\ Callbacks(c, 2) # {}
           /\ buffer[c] = <<>>

(***************************************************************************)
(* C2: whatever the transports' start does (disabled, returns false,        *)
(* raises), async_setup returns True, and from then on the aggregate holds  *)
(* exactly one hub, which is never unset; when neither transport started,   *)
(* that hub is disarmed and carries the configured hub identifier.          *)
(***************************************************************************)
C2_HubAfterSetup ==
    /\ [](setup.result # None =>
            /\ setup.pc = "done"
            /\ setup.result = Some(TRUE)
            /\ data.hub # None
            /\ data.hub[1].cls = "AjaxHub"
            /\ \A k \in DOMAIN data.devices : data.devices[k].cls # "AjaxHub"
            /\ (~setup.sia_ok /\ ~setup.jeedom_mqtt_ok =>
                  /\ data.hub[1].state = DISARMED
                  /\ data.hub[1].device_id = ConfHubId))
    /\ [][data.hub # None => data'.hub # None]_vars

\* Both transports are configured and both failed, the bridge after its
\* first subscription; a bridge message has arrived since.
C2_Witness ==
    /\ setup.result = Some(TRUE)
    /\ cfg.use_sia /\ cfg.use_jeedom_mqtt
    /\ ~setup.sia_ok /\ ~setup.jeedom_mqtt_ok
    /\ cfg.hub_id = Some("hub1")
    /\ data.hub # None /\ data.hub[1].device_id = "hub1"
    /\ data.hub[1].state = DISARMED
    /\ op.kind = "_handle_message"

(***************************************************************************)
(* C3: with the receiver running and no bridge configured, each of          *)
(* async_arm, async_disarm and async_arm_night returns False and changes    *)
(* nothing of the aggregate, and so does each of the panel entity's         *)
(* commands, which writes its state only after a command that succeeded.    *)
(***************************************************************************)
C3_CommandsFail ==
    [][(running /\ ~cfg.use_jeedom_mqtt
        /\ op'.kind \in CoordinatorCommands \cup PanelCommands)
       => op'.result = Some(FALSE) /\ data' = data]_vars

\* The hub was armed by a CL event; the panel's disarm has returned and the
\* hub is still armed.
C3_Witness ==
    /\ running /\ ~cfg.use_jeedom_mqtt
    /\ op.kind = "async_alarm_disarm"
    /\ op.result = Some(FALSE)
    /\ data.hub # None
    /\ data.hub[1].state = ARMED_AWAY

(***************************************************************************)
(* C9: a record of a concrete sensor class stays in the aggregate with its  *)
(* class and its device_type through every receiver event and every bridge  *)
(* message; a generic record changes class only in the step of a bridge     *)
(* message for its identifier whose bridge device has a known type other    *)
(* than hub (the upgrade path).                                            *)
(***************************************************************************)
TypedClasses ==
    {"AjaxDoorSensor", "AjaxMotionSensor", "AjaxLeakSensor", "AjaxFireSensor"}

\* the identifier the bridge message of the last call is about
MessageDeviceId(o) ==
    LET parsed == parse_human_name(o.arg[1].humanName)
    IN  get_device_id(parsed.device, parsed.zone)

C9_TypeImmutable ==
    [][\A x \in DOMAIN data.devices :
          /\ x \in DOMAIN data'.devices
          /\ data.devices[x].cls \in TypedClasses =>
                /\ data'.devices[x].cls = data.devices[x].cls
                /\ data'.devices[x].device_type = data.devices[x].device_type
          /\ (data.devices[x].cls = "AjaxDevice"
              /\ data'.devices[x].cls # "AjaxDevice") =>
                /\ op'.kind = "_handle_message"
                /\ MessageDeviceId(op') = x
                /\ x \in DOMAIN mqtt'.devices
                /\ mqtt'.devices[x].device_type \notin {"unknown", "hub"}]_vars

\* Zone 1 is a door sensor, made by a ZO event, and has since received the
\* burglary alarm of a motion sensor.
C9_Witness ==
    /\ op.kind = "_handle_sia_event"
    /\ op.arg[1].event_code = "BA"
    /\ op.arg[1].zone = Some(1)
    /\ "zone_1" \in DOMAIN data.devices
    /\ data.devices["zone_1"].cls = "AjaxDoorSensor"
    /\ data.devices["zone_1"].device_type = "DoorProtect"

(***************************************************************************)
(* C10: the alarm state of an existing hub changes only in the step of a    *)
(* receiver event with one of the codes CL, OP, NL, NR, BA, FA, PA, WA, TA  *)
(* or of a panel command that succeeded; no other event and no bridge       *)
(* message changes it.                                                     *)
(***************************************************************************)
AlarmCodes == {"CL", "OP", "NL", "NR", "BA", "FA", "PA", "WA", "TA"}

C10_HubStateDrivers ==
    [][(data.hub # None /\ data'.hub # None
        /\ data'.hub[1].state # data.hub[1].state)
       => \/ /\ op'.kind = "_handle_sia_event"
             /\ op'.arg[1].event_code \in AlarmCodes
          \/ /\ op'.kind \in PanelCommands
             /\ op'.result = Some(TRUE)]_vars

\* The bridge has delivered the hub's "Armé"; the bridge's hub is armed and
\* the coordinator's hub is still disarmed.
C10_Witness ==
    /\ op.kind = "_handle_message"
    /\ op.arg[1].name = "Armé"
    /\ "ajax_hub" \in DOMAIN mqtt.devices
    /\ mqtt.devices["ajax_hub"].device_type = "hub"
    /\ mqtt.devices["ajax_hub"].alarm_state = Some("armed")
    /\ data.hub # None
    /\ data.hub[1].state = DISARMED
    /\ "ajax_hub" \notin DOMAIN data.devices

(***************************************************************************)
(* C11: once async_setup has returned, every device in the aggregate        *)
(* carries the device_id of the hub as its hub_id.                          *)
(***************************************************************************)
C11_DevicesCarryHubId ==
    setup.result # None =>
        \A k \in DOMAIN data.devices :
            data.devices[k].hub_id = data.hub[1].device_id

(***************************************************************************)
(* C12: a bridge message notifies the callbacks and the dispatcher only if  *)
(* it first discovered its device or changed the value of the attribute     *)
(* its command maps to; a message that repeats the stored value of a known  *)
(* device notifies nobody.                                                 *)
(***************************************************************************)
C12_NotifyOnlyOnChange ==
    [][(op'.kind = "_handle_message" /\ op'.result = Some(TRUE)) =>
          LET id == MessageDeviceId(op')
              name == op'.arg[1].name
          IN  \/ id \notin DOMAIN mqtt.devices
              \/ /\ name \in DOMAIN COMMAND_MAPPING
                 /\ mqtt'.devices[id][COMMAND_MAPPING[name].attr]
                      # mqtt.devices[id][COMMAND_MAPPING[name].attr]]_vars

(***************************************************************************)
(* C13: update_from_command gives is_open = true for "Ouvert" with value 0  *)
(* and false with value 1, and gives is_open = false for "Fermé" with       *)
(* value 1 and true with value 0.                                          *)
(***************************************************************************)
C13_DoorInversion ==
    Returned("update_from_command") =>
        LET a == fnCall[1].arg
            is_open == fnRes[1].device.is_open
        IN  /\ (a.command_name = "Ouvert" /\ a.value = "0") => is_open = Some(TRUE)
            /\ (a.command_name = "Ouvert" /\ a.value = "1") => is_open = Some(FALSE)
            /\ (a.command_name = "Fermé" /\ a.value = "1") => is_open = Some(FALSE)
            /\ (a.command_name = "Fermé" /\ a.value = "0") => is_open = Some(TRUE)

C15_DeviceIdentity ==
    Returned("resolve_device_id") =>
        \A h \in HumanNameInputs :
            LET a == fnCall[1].arg
                id == fnRes[1]
            IN  /\ (h.zone = a.zone /\ h.device = a.device) =>
                      resolve_device_id(h.humanName) = id
                /\ (h.device = a.device /\ h.zone # a.zone
                    /\ h.zone \notin SentinelZones /\ a.zone \notin SentinelZones) =>
                      resolve_device_id(h.humanName) # id

(***************************************************************************)
(* C16: sia_event_to_sensor_state returns for ZO/ZC, BA/BR, FA/FR, WA/WR    *)
(* and TA/TR a dict of exactly three entries: the event's zone, the type    *)
(* door, motion, fire, leak or tamper, and the type's boolean, true for     *)
(* the first code of the pair and false for the second; for every other     *)
(* code it returns None.                                                   *)
(***************************************************************************)
SensorStateTable ==
    [ZO |-> <<"door", "is_open", TRUE>>,
     ZC |-> <<"door", "is_open", FALSE>>,
     BA |-> <<"motion", "motion_detected", TRUE>>,
     BR |-> <<"motion", "motion_detected", FALSE>>,
     FA |-> <<"fire", "smoke_detected", TRUE>>,
     FR |-> <<"fire", "smoke_detected", FALSE>>,
     WA |-> <<"leak", "leak_detected", TRUE>>,
     WR |-> <<"leak", "leak_detected", FALSE>>,
     TA |-> <<"tamper", "tamper", TRUE>>,
     TR |-> <<"tamper", "tamper", FALSE>>]

C16_SensorStateMapping ==
    Returned("sia_event_to_sensor_state") =>
        LET event == fnCall[1].arg
            code == event.event_code
            result == fnRes[1]
        IN  IF code \in DOMAIN SensorStateTable
            THEN /\ result # None
                 /\ DOMAIN result[1] = {"zone", "type", SensorStateTable[code][2]}
                 /\ result[1].zone = event.zone
                 /\ result[1].type = SensorStateTable[code][1]
                 /\ result[1][SensorStateTable[code][2]] = SensorStateTable[code][3]
            ELSE result = None

\* The water restore of zone 2 has been converted.
C16_Witness ==
    /\ Returned("sia_event_to_sensor_state")
    /\ fnCall[1].arg.event_code = "WR"
    /\ fnCall[1].arg.zone = Some(2)
    /\ fnRes[1] = Some([zone |-> Some(2), type |-> "leak", leak_detected |-> FALSE])

(***************************************************************************)
(* C17: for a state change (with a new state) of an entity whose identifier *)
(* is domain.object_id, _async_publish_state publishes to                   *)
(* prefix/hub_id/domain/object_id/state and to nothing else; for an         *)
(* identifier without a "." it publishes nothing.                           *)
(***************************************************************************)
C17_StateTopic ==
    Returned("_async_publish_state") =>
        LET a == fnCall[1].arg
            topic == fnRes[1]
        IN  /\ (Len(a.entity.parts) = 2 /\ a.new_state # None) =>
                  topic = Some(a.topic_prefix \o "/" \o a.hub_id \o "/"
                               \o a.entity.parts[1] \o "/" \o a.entity.parts[2]
                               \o "/state")
            /\ (a.topic_prefix = "ajax" /\ a.hub_id = "hub1"
                /\ a.entity.entity_id = "binary_sensor.front_door"
                /\ a.new_state # None) =>
                  topic = Some("ajax/hub1/binary_sensor/front_door/state")
            /\ Len(a.entity.parts) = 1 => topic = None

\* The state change of binary_sensor.front_door has been published.
C17_Witness ==
    /\ Returned("_async_publish_state")
    /\ fnCall[1].arg.entity.entity_id = "binary_sensor.front_door"
    /\ fnCall[1].arg.new_state = Some("on")
    /\ fnRes[1] = Some("ajax/hub1/binary_sensor/front_door/state")

(***************************************************************************)
(* C18: under every interleaving of register_entity_for_mqtt with           *)
(* async_setup_mqtt_publisher, an entity never has more than one            *)
(* state-change watcher and is queued once however often it is registered,  *)
(* and once the publisher has started successfully every registered entity  *)
(* (those registered before the start included) has exactly one watcher.    *)
(***************************************************************************)
PublisherRunning ==
    /\ life.pubsetup = "done"
    /\ mqtt_publisher # None
    /\ mqtt_publisher[1].is_running

C18_OneWatcherPerEntity ==
    /\ \A e \in Entities : watchers[e] <= 1
    /\ \A i, j \in 1..Len(tracked_entity_ids) :
          tracked_entity_ids[i] = tracked_entity_ids[j] => i = j
    /\ PublisherRunning =>
          \A i \in 1..Len(tracked_entity_ids) :
              watchers[tracked_entity_ids[i]] = 1

\* The publisher has started; one entity was registered before the setup
\* began, the other while async_start awaited the discovery publication, and
\* one of them was registered again.
C18_Witness ==
    /\ PublisherRunning
    /\ life.shutdown = None
    /\ life.registered_at["alarm_control_panel.ajax_hub1"] = "idle"
    /\ life.registered_at["binary_sensor.porta"] = "discovery"
    /\ life.nreg > Len(tracked_entity_ids)
    /\ \A e \in Entities : watchers[e] = 1

(***************************************************************************)
(* C19: async_shutdown calls the stop of the receiver, then of the bridge,  *)
(* then of the publisher, and a stop that fails does not keep the later     *)
(* components from being stopped: every component the coordinator holds     *)
(* has had its stop called when async_shutdown is over.                     *)
(***************************************************************************)
ComponentsHeld ==
    (IF sia_receiver # None THEN <<"sia_receiver">> ELSE <<>>)
    \o (IF jeedom_mqtt_handler # None THEN <<"jeedom_mqtt_handler">> ELSE <<>>)
    \o (IF mqtt_publisher # None THEN <<"mqtt_publisher">> ELSE <<>>)

C19_ShutdownStopsAll ==
    life.shutdown # None => life.shutdown[1].stop_calls = ComponentsHeld

(***************************************************************************)
(* C20: when the entry configures a polling HTTP transport (use_cloud or    *)
(* use_jeedom_proxy), async_arm, async_disarm and async_arm_night call that *)
(* transport's client and return what it answers.                          *)
(***************************************************************************)
C20_CommandsDelegated ==
    (life.http # None /\ life.command # None) =>
        /\ life.command[1].client_calls # <<>>
        /\ life.command[1].result = life.http[1].accepts

(***************************************************************************)
(* C21: connected is false until async_setup has begun, and once            *)
(* async_setup has returned it is true exactly when the receiver's start    *)
(* or the bridge's start returned True; with every transport disabled or    *)
(* failed it stays false.                                                   *)
(***************************************************************************)
C21_ConnectedFlag ==
    /\ setup.pc = "init" => ~data.connected
    /\ setup.result # None =>
          (data.connected <=> (running \/ setup.jeedom_mqtt_ok))
    /\ (setup.result # None /\ cfg.use_sia /\ ~running
        /\ ~setup.jeedom_mqtt_ok) => ~data.connected

\* The receiver failed to start, the bridge started: connected is true.
C21_Witness ==
    /\ setup.result # None
    /\ cfg.use_sia
    /\ ~running
    /\ setup.jeedom_mqtt_ok
    /\ data.connected

(***************************************************************************)
(* C22: in the cloud and the proxy step, a submission whose live probe      *)
(* fails (authentication error, connection error, no hubs, any other        *)
(* error) shows the same step again with an error code and creates no       *)
(* entry; an entry is created only when authenticate and the hub listing    *)
(* both succeeded.                                                          *)
(***************************************************************************)
Probed ==
    /\ Returned("async_step")
    /\ fnCall[1].arg.mode \in {"cloud", "jeedom"}
    /\ fnCall[1].arg.user_input # None
    /\ fnCall[1].arg.mode = "cloud" => fnCall[1].arg.user_input[1].try_anyway

C22_FailedProbeReshowsStep ==
    Probed =>
        LET a == fnCall[1].arg
            r == fnRes[1]
        IN  /\ a.outcome # "hubs" =>
                  /\ r.type = "form"
                  /\ r.step_id = a.mode
                  /\ r.errors # None
            /\ r.type = "create_entry" => a.outcome = "hubs"

\* The proxy step was submitted, the proxy answered 404, and the step is
\* shown again with jeedom_service_unavailable.
C22_Witness ==
    /\ Probed
    /\ fnCall[1].arg.mode = "jeedom"
    /\ fnCall[1].arg.outcome = "Exception 404"
    /\ fnRes[1] = show_form("jeedom", Some("jeedom_service_unavailable"))

(***************************************************************************)
(* C23: every mode's step can complete: a submission that is not a          *)
(* duplicate and whose probe (where the mode has one) authenticated and     *)
(* listed a hub creates an entry; for the cloud mode its unique id is       *)
(* ajax_cloud_ followed by the user name.                                   *)
(***************************************************************************)
C23_EveryModeCompletes ==
    (/\ Returned("async_step")
     /\ fnCall[1].arg.user_input # None
     /\ fnCall[1].arg.user_input[1].try_anyway
     /\ fnCall[1].arg.outcome = "hubs"
     /\ fnCall[1].arg.configured = {}) =>
        /\ fnRes[1].type = "create_entry"
        /\ fnCall[1].arg.mode = "cloud" =>
              fnRes[1].unique_id = "ajax_cloud_" \o fnCall[1].arg.user_input[1].target

(***************************************************************************)
(* C24: the service refresh_jeedom, called while the bridge is subscribed,  *)
(* publishes a republish request to jeedom/cmd/get/{topic_id} for every     *)
(* command-topic id of every device the bridge knows.                       *)
(***************************************************************************)
C24_RefreshRequestsAll ==
    (op.kind = "refresh_jeedom" /\ mqtt.subscribed) =>
        op.result = Some(async_request_refresh(mqtt.devices))

(***************************************************************************)
(* C25: sia_event_to_alarm_state maps the night-mode-on code NL to          *)
(* armed_night.                                                             *)
(***************************************************************************)
C25_NightModeArmsNight ==
    (Returned("sia_event_to_alarm_state") /\ fnCall[1].arg.event_code = "NL") =>
        fnRes[1] = Some(ARMED_NIGHT)

(***************************************************************************)
(* C26: every alarm-signalling event handed to the coordinator while the    *)
(* hub exists is applied at once and in arrival order: after a              *)
(* state-changing code the hub's state is that code's mapping and           *)
(* last_event is that code; after any other code both are what they were,   *)
(* so they always belong to the last state-changing code.                   *)
(***************************************************************************)
SiaStep == nin'.sia = nin.sia + 1

StateCodes ==
    "CL" :> ARMED_AWAY @@ "OP" :> DISARMED @@ "NL" :> ARMED_HOME @@
    "NR" :> DISARMED @@ "BA" :> TRIGGERED @@ "FA" :> TRIGGERED @@
    "PA" :> TRIGGERED @@ "WA" :> TRIGGERED @@ "TA" :> TRIGGERED

C26_EventsInOrder ==
    [][(SiaStep /\ data.hub # None) =>
          LET code == op'.arg[1].event_code IN
          IF code \in DOMAIN StateCodes
          THEN /\ data'.hub[1].state = StateCodes[code]
               /\ data'.hub[1].last_event = Some(code)
          ELSE /\ data'.hub[1].state = data.hub[1].state
               /\ data'.hub[1].last_event = data.hub[1].last_event]_vars

\* Two events came after the hub existed, a trigger and then OP: the hub is
\* disarmed by the second.
C26_Witness ==
    /\ nin.sia = 2
    /\ op.kind = "_handle_sia_event"
    /\ op.arg[1].event_code = "OP"
    /\ data.hub # None
    /\ data.hub[1].state = DISARMED
    /\ data.hub[1].last_event = Some("OP")
    /\ data.hub[1].last_event_time = Some(2)

(***************************************************************************)
(* C27: a restore event (BR, FR, PR, WR, TR) leaves the hub's state,        *)
(* last_event and last_event_time as they were: a triggered hub stays       *)
(* triggered.                                                               *)
(***************************************************************************)
RestoreCodes == {"BR", "FR", "PR", "WR", "TR"}

ResolvedRecord ==
    "door" :> <<"AjaxDoorSensor", "DoorProtect">> @@
    "motion" :> <<"AjaxMotionSensor", "MotionProtect">> @@
    "leak" :> <<"AjaxLeakSensor", "LeaksProtect">> @@
    "smoke" :> <<"AjaxFireSensor", "FireProtect">> @@
    "siren" :> <<"AjaxDevice", "StreetSiren">> @@
    "keypad" :> <<"AjaxDevice", "KeyPad">> @@
    "remote" :> <<"AjaxDevice", "SpaceControl">>

\* the step is a bridge message that reported the device x to the
\* coordinator, which held a generic record for it, with a resolved type
UpgradeStep(x) ==
    /\ op'.kind = "_handle_message"
    /\ nin'.mqtt = nin.mqtt + 1
    /\ op'.result = Some(TRUE)
    /\ MessageDeviceId(op') = x
    /\ x \in DOMAIN data.devices
    /\ data.devices[x].cls = "AjaxDevice"
    /\ x \in DOMAIN mqtt'.devices
    /\ mqtt'.devices[x].device_type \in DOMAIN ResolvedRecord

C28_UpgradeKeepsIdentity ==
    [][\A x \in DOMAIN data.devices :
          UpgradeStep(x) =>
              /\ DOMAIN data'.devices = DOMAIN data.devices
              /\ data'.devices[x].cls
                     = ResolvedRecord[mqtt'.devices[x].device_type][1]
              /\ data'.devices[x].device_type
                     = ResolvedRecord[mqtt'.devices[x].device_type][2]
              /\ data'.devices[x].device_id = data.devices[x].device_id
              /\ data'.devices[x].hub_id = data.devices[x].hub_id]_vars

(***************************************************************************)
(* C29: a bridge device whose name contains one of the keywords of an       *)
(* aggregate (totale, total, tlc, somma, sum, aggreg) has the type virtual  *)
(* and has no record in the coordinator's device map, whatever was          *)
(* received for it.                                                        *)
(***************************************************************************)
VirtualKeywords == {"totale", "total", "tlc", "somma", "sum", "aggreg"}

IsAggregateName(name) ==
    \E keyword \in VirtualKeywords : Contains(lower(name), keyword)

C29_VirtualNeverAdded ==
    \A x \in DOMAIN mqtt.devices :
        IsAggregateName(mqtt.devices[x].name) =>
            /\ mqtt.devices[x].device_type = "virtual"
            /\ x \notin DOMAIN data.devices

(***************************************************************************)
(* C30: a state-changing event that the started receiver handed over while  *)
(* async_setup was still under way, with nothing after it but the rest of   *)
(* the setup, shows in the hub's alarm state when async_setup returns.      *)
(***************************************************************************)
SetupReturns == setup.result = None /\ setup'.result # None

C30_EventDuringSetupKept ==
    [][(/\ SetupReturns
        /\ op.kind = "_handle_sia_event"
        /\ op.arg[1].event_code \in DOMAIN StateCodes)
       => /\ data'.hub # None
          /\ data'.hub[1].state = StateCodes[op.arg[1].event_code]]_vars

(***************************************************************************)
(* C31: the alarm panel shows disarmed only when the hub's alarm state is   *)
(* disarmed; after a night-mode-on event (NL) it shows an armed state.      *)
(***************************************************************************)
C31_PanelDisarmedOnlyWhenDisarmed ==
    (data.hub # None /\ alarm_state(data.hub) = Some("disarmed")) =>
        data.hub[1].state = DISARMED

(***************************************************************************)
(* C32: every door, motion, leak or fire device in the coordinator's        *)
(* device map eventually has its binary entity, also a device first         *)
(* recorded as generic and later upgraded to a typed record.                *)
(***************************************************************************)
CorrespondingEntity ==
    "AjaxDoorSensor" :> "door" @@ "AjaxMotionSensor" :> "motion" @@
    "AjaxLeakSensor" :> "leak" @@ "AjaxFireSensor" :> "smoke"

PlatformDeviceIds ==
    {"zone_1", "zone_2", "zone_3", "ajax_porta", "ajax_garage", "ajax_totale"}

TypedDevice(x) ==
    /\ x \in DOMAIN data.devices
    /\ data.devices[x].cls \in DOMAIN CorrespondingEntity

HasEntity(x) ==
    /\ TypedDevice(x)
    /\ <<x, CorrespondingEntity[data.devices[x].cls]>> \in binary_sensor.entities

C32_TypedDevicesGetEntities ==
    \A x \in PlatformDeviceIds : [](TypedDevice(x) => <>HasEntity(x))

\* why the run that refutes C32 stays as it is whatever arrives later: no
\* step gives an entity to a device whose identifier is in added_devices
C32_AddedDevicesNeverRevisited ==
    [][\A x \in binary_sensor.added_devices :
          {e \in binary_sensor'.entities : e[1] = x}
              = {e \in binary_sensor.entities : e[1] = x}]_vars

(***************************************************************************)
(* C33: every message that yields an event has exactly one acknowledgment   *)
(* and exactly one delivery of its event, the acknowledgment before the     *)
(* delivery, also when the coordinator's handler raises; every well-formed  *)
(* message the account filter accepts is such a message.                    *)
(***************************************************************************)
YieldsEvent(c, n) == Callbacks(c, n) # {} \/ Acks(c, n) # {}

C33_OneAckThenOneDelivery ==
    \A c \in Conns : \A n \in 1..Len(Messages(c)) :
        /\ (WellFormed(Messages(c)[n])
            /\ (ConfSiaAccount = "" \/ ParsedAccount(Messages(c)[n]) = ConfSiaAccount))
              => YieldsEvent(c, n)
        /\ YieldsEvent(c, n) =>
              /\ Cardinality(Acks(c, n)) = 1
              /\ Cardinality(Callbacks(c, n)) = 1
              /\ \A i \in Acks(c, n) : \A j \in Callbacks(c, n) : i < j

\* The handler raised on both messages of a connection: each has its one
\* acknowledgment, written before its one delivery.
C33_Witness ==
    /\ listener_raises
    /\ \E c \in Conns :
           /\ Len(Messages(c)) = 2
           /\ Len(log[c]) = 4
           /\ log[c][1].op = "write" /\ log[c][1].msg = 1
           /\ log[c][2].op = "callback" /\ log[c][2].msg = 1
           /\ log[c][3].op = "write" /\ log[c][3].msg = 2
           /\ log[c][4].op = "callback" /\ log[c][4].msg = 2

(***************************************************************************)
(* C34: after a sensor-class event (ZO, ZC, BA, BR, FA, FR, WA, WR, TA, TR) *)
(* with a zone number, zone 0 included, has been handled, the aggregate     *)
(* holds a device zone_<n> for its zone.                                    *)
(***************************************************************************)
SensorCodes == {"ZO", "ZC", "BA", "BR", "FA", "FR", "WA", "WR", "TA", "TR"}

C34_ZoneDeviceExists ==
    (/\ op.kind = "_handle_sia_event"
     /\ op.arg[1].event_code \in SensorCodes
     /\ op.arg[1].zone # None)
    => ("zone_" \o ToString(op.arg[1].zone[1])) \in DOMAIN data.devices

(***************************************************************************)
(* C35: under every interleaving of start() and stop() calls is_running is  *)
(* true exactly when the receiver holds a listening server; a start() that  *)
(* returns True leaves the receiver listening, one that returns False       *)
(* leaves it not running, a start() on a running receiver creates no        *)
(* server, and when a stop() returns the receiver is not running.           *)
(***************************************************************************)
CallReturns(i, kind) ==
    /\ i <= Len(receiver'.calls)
    /\ receiver'.calls[i].kind = kind
    /\ receiver'.calls[i].pc = "done"
    /\ i <= Len(receiver.calls) => receiver.calls[i].pc # "done"

C35_RunningIffListening ==
    /\ [](is_running(receiver) <=> Listening(receiver))
    /\ [][\A i \in 1..MaxCalls :
            /\ (CallReturns(i, "start") /\ receiver'.calls[i].result = Some(TRUE))
                  => Listening(receiver')
            /\ (CallReturns(i, "start") /\ receiver'.calls[i].result = Some(FALSE))
                  => ~is_running(receiver')
            /\ (CallReturns(i, "start") /\ is_running(receiver))
                  => receiver'.nservers = receiver.nservers
            /\ CallReturns(i, "stop") => ~is_running(receiver')]_vars

(***************************************************************************)
(* C36: after the wizard's MQTT-bridge step was submitted, the coordinator  *)
(* made for the entry it wrote has the bridge enabled, on the topic the     *)
(* step configured.                                                        *)
(***************************************************************************)
C36_WizardEnablesBridge ==
    Returned("setup_after_mqtt_step") =>
        /\ fnRes[1].coordinator # None
        /\ fnRes[1].coordinator[1].use_jeedom_mqtt = TRUE
        /\ fnRes[1].coordinator[1].topic = fnRes[1].data.mqtt_prefix \o "/event"

(***************************************************************************)
(* C37: a network-level failure of a request of the cloud client, also of   *)
(* one made by authenticate, reaches the wizard as a connection failure,    *)
(* not as an authentication failure, and the step shows cannot_connect.     *)
(***************************************************************************)
\* the first request of the probe that does not succeed fails at the
\* network level
NetworkFailure(a) ==
    \/ a.login = "ClientError"
    \/ a.login \in {"200", "302"} /\ a.csa = "ClientError"
    \/ a.login \in {"200", "302"} /\ a.csa \in {"200", "302"}
       /\ a.hubs_data = "ClientError"

C37_ConnectionFailureSurfaced ==
    (Returned("cloud_probe") /\ NetworkFailure(fnCall[1].arg)) =>
        /\ fnRes[1].outcome = "ConnectionError"
        /\ fnRes[1].error = Some("cannot_connect")

(***************************************************************************)
(* C38: a proxy login whose response lacks the session token, the refresh   *)
(* token or the user identifier raises the authentication error and leaves  *)
(* the client unauthenticated.                                              *)
(***************************************************************************)
\* the response is a dict in which a key is missing or holds no value
LacksOne(outcome) ==
    /\ outcome.raised = None
    /\ \E key \in LoginKeys : falsy(response_get(outcome.response, key))

C38_IncompleteLoginFails ==
    (Returned("proxy_authenticate") /\ LacksOne(fnCall[1].arg.outcome)) =>
        /\ fnRes[1].raised = Some("JeedomAuthError")
        /\ ~fnRes[1].client.authenticated

\* the part of C38 the code keeps: on a new client, a response without the
\* session token or without the user identifier
C38_NewClientWithoutSessionOrUser ==
    (/\ Returned("proxy_authenticate")
     /\ fnCall[1].arg.client = NewProxy
     /\ fnCall[1].arg.outcome.raised = None
     /\ \E key \in {"sessionToken", "userId"} :
            falsy(response_get(fnCall[1].arg.outcome.response, key))) =>
        /\ fnRes[1].raised = Some("JeedomAuthError")
        /\ ~fnRes[1].client.authenticated

(***************************************************************************)
(* C39: a bridge message whose value cannot be interpreted for the          *)
(* attribute of its command is dropped without effect: the registry of the  *)
(* bridge is as before and no callback is called.                           *)
(***************************************************************************)
\* update_from_command raises on the value of the message
ValueRejected(msg) ==
    update_from_command(JeedomDevice("ajax_garage", "Garage", "Aucun", "unknown"),
                        msg.name, msg.value, "97").raised

C39_RejectedMessageHasNoEffect ==
    (Returned("_handle_message") /\ ValueRejected(fnCall[1].arg.msg)) =>
        /\ fnRes[1].devices = fnCall[1].arg.devices
        /\ ~fnRes[1].notified

\* the part of C39 the code keeps: no callback is called
C39_RejectedMessageNotNotified ==
    (Returned("_handle_message") /\ ValueRejected(fnCall[1].arg.msg)) =>
        ~fnRes[1].notified

(***************************************************************************)
(* C40: a device whose name is exactly one of the keywords of a type of     *)
(* the keyword table is classified as that type, so that every type of the  *)
(* table, siren included, can be produced.                                  *)
(***************************************************************************)
\* the type in whose list the keyword stands
KeywordType(keyword) ==
    DEVICE_TYPE_PATTERNS[CHOOSE i \in 1..Len(DEVICE_TYPE_PATTERNS) :
                             keyword \in DEVICE_TYPE_PATTERNS[i].patterns].type

C40_KeywordGivesItsType ==
    (Returned("_detect_device_type") /\ fnCall[1].arg.device_name \in AllPatterns) =>
        fnRes[1].device_type = KeywordType(fnCall[1].arg.device_name)

\* what the code does instead: no name is classified as a siren, and the
\* keywords of every other type but "fire" and "fireprotect" give their type
C40_NoSirenAndOthersKept ==
    Returned("_detect_device_type") =>
        /\ fnRes[1].device_type # "siren"
        /\ (/\ fnCall[1].arg.device_name \in AllPatterns
            /\ KeywordType(fnCall[1].arg.device_name) # "siren"
            /\ fnCall[1].arg.device_name \notin {"fire", "fireprotect"})
           => fnRes[1].device_type = KeywordType(fnCall[1].arg.device_name)

=============================================================================
